---- MODULE Spec2Model ----
(***************************************************************************)
(* Model of the aemeath desktop pet:                                       *)
(*   - create_cursor_tracker and the backend constructors (cursor.py)      *)
(*   - Pet, the behaviour state machine (pet.py), driven by                *)
(*     AemeathApp._tick (app.py)                                           *)
(*   - Pet._pick_idle_gif, the idle-animation ramp (pet.py)                *)
(*   - the query methods of the backends, with the fusion filter of       *)
(*     _WaylandHybridCursor (cursor.py)                                    *)
(* The specifications share the variables: SpecSel (backend selection),    *)
(* Spec (the tick loop around the Pet), SpecIdle (the idle ramp as a       *)
(* function of the mouse-idle time and the random draw) and SpecQuery      *)
(* (successive queries of one backend).                                    *)
(*   - the life of AemeathApp (app.py): __init__, the timer-driven _tick,  *)
(*     statement by statement, and _quit; specification SpecLoop           *)
(*   - one update_mouse and tick of the Pet from each of a set of          *)
(*     situations, or one call of Pet._move_toward (SpecStep)              *)
(***************************************************************************)
EXTENDS Integers, Sequences, FiniteSets, TLC

VARIABLES
  \* ---- backend selection (cursor.py, create_cursor_tracker) ----
  platform,        \* sys.platform: "win32", "linux", "other"
  is_wayland,      \* WAYLAND_DISPLAY set or XDG_SESSION_TYPE == "wayland"
  hypr_sig,        \* HYPRLAND_INSTANCE_SIGNATURE is set and non-empty
  desktop,         \* which desktop families XDG_CURRENT_DESKTOP matches
  sel_pc,          \* position inside create_cursor_tracker
  attempted,       \* sequence of the constructors called so far
  outcome,         \* per candidate: "untried", "ok" or "failed"
  held,            \* per candidate: OS resources its instance still holds
  closed_by_sel,   \* candidates on which create_cursor_tracker called close()
  selected,        \* the backend returned, "none" before the return
  sel_raised,      \* an exception left create_cursor_tracker
  \* ---- Pet fields (pet.py, Pet.__init__) ----
  x, y,
  state, prev_state,
  mouse_x, mouse_y, last_mouse_x, last_mouse_y,
  mouse_idle_start_ms, mouse_idle_time, mouse_pressed,
  wander_anchor_x, wander_anchor_y, wander_target_x, wander_target_y,
  wander_end_time, wander_dir_change_time,
  idle_end_time, idle_anchor_mouse_x, idle_anchor_mouse_y,
  seal_active, seal_x, seal_y,
  seal_wander_target_x, seal_wander_target_y, seal_wander_dir_time,
  current_gif, flipped, seal_should_appear, seal_should_disappear,
  \* ---- AemeathApp fields and the locals of one _tick (app.py) ----
  now_ms,          \* the now_ms of the last tick
  ticks,           \* number of ticks run
  seal_visible,    \* self._seal_sprite.isVisible()
  seal_widget_x,   \* self._seal_sprite.x(), y(): top-left corner, in pixels
  seal_widget_y,
  tick_state0,     \* Pet.state when the tick began
  tick_entry,      \* Pet.state after the drag detection of Pet.tick
  tick_dist2,      \* square of the local `dist` of Pet.tick
  tick_moved,      \* the local `moved` of Pet.update_mouse
  tick_seal0,      \* Pet._seal_active when the tick began
  spawn_count,     \* ticks that ended with seal_should_appear for the current seal
  despawn_count,   \* ticks that ended with seal_should_disappear since the last spawn
  drag_from,       \* Pet.state just before the latest press, "none" before any
  \* ---- idle ramp (pet.py, Pet._pick_idle_gif) ----
  idle_pick,       \* IdlePick's last call of _pick_idle_gif: <<mouse-idle time,
                   \* index random.choice picks, numerator of random.random()>>
  \* ---- backend queries (cursor.py, the query methods) ----
  q_backend,       \* the backend queried: "hybrid", "hyprland", "gnome", "none"
  q_use_gi,        \* _GnomeCursor._use_gi
  hybrid,          \* the fields of the _WaylandHybridCursor object
  queries,         \* number of queries made
  q_last,          \* the last query: its inputs, the object before it, its result
  q_run,           \* the seed and the accumulated raw_delta * sensitivity of
                   \* the queries so far, while every one of them was stale
  \* ---- the life of AemeathApp (app.py: __init__, _tick, _quit) ----
  app_pc,          \* the routine in progress: "init", "exec" (the event loop
                   \* is idle), "tick", "quit" or "exited"
  step,            \* index of the next statement of the routine in progress
  cursor,          \* self._cursor: kind, resources held, close() called and
                   \* what it met, the screen's dpr, processEvents calls made
  timer_active,    \* self._timer.isActive()
  tray_visible,    \* self._tray.isVisible()
  pump_left,       \* QApplication.processEvents() calls the running
                   \* _KDECursor.__init__ has still to make
  loop_ticks,      \* number of _tick calls begun
  sample,          \* the locals mx, my, buttons of _tick
  tick_log,        \* the statements of the current _tick run so far, each
                   \* with what it was given or what it read
  rendered,        \* what the pet sprite last showed: <<x, y, gif, flipped>>
  reentered,       \* a timeout was delivered while a call was in progress
  late_query,      \* query() was called on a closed backend
  quit_raised,     \* an exception left _quit
  \* ---- single steps of the Pet (pet.py: update_mouse, tick, _move_toward) ----
  step_pet0,       \* the Pet object before the last update_mouse
  step_sample,     \* what the last update_mouse and tick were given:
                   \* <<mx, my, buttons_pressed, now_ms>>
  steps,           \* number of update_mouse / tick pairs run
  mv,              \* the last direct _move_toward call: arguments, position
                   \* before and after, and whether it raised; after an
                   \* update_mouse / tick pair, whether that raised
  moves,           \* number of direct _move_toward calls made
  still,           \* the run of samples, up to the last one fed, none of
                   \* which was above MOUSE_MOVE_THRESHOLD from the one
                   \* before it: how many, the pointer, the time of the last
                   \* movement and the seal when the run began
  \* ---- the raw device of the hybrid backend (cursor.py: _read_mice) ----
  mice_dev,        \* what reads of /dev/input/mice will return, in order:
                   \* 3-byte packets and short chunks
  mice_last,       \* the last _read_mice call: the device before it, what
                   \* it returned, the reads it made, whether it blocked
  mice_arrived,    \* every chunk the device has queued so far, in order
  mice_counted,    \* every packet a _read_mice call has added to its sums
  mice_dropped,    \* number of short chunks read and thrown away
  drains           \* number of _read_mice calls made

selVars == <<platform, is_wayland, hypr_sig, desktop, sel_pc, attempted,
             outcome, held, closed_by_sel, selected, sel_raised>>

petVars == <<x, y, state, prev_state, mouse_x, mouse_y, last_mouse_x,
             last_mouse_y, mouse_idle_start_ms, mouse_idle_time, mouse_pressed,
             wander_anchor_x, wander_anchor_y, wander_target_x, wander_target_y,
             wander_end_time, wander_dir_change_time, idle_end_time,
             idle_anchor_mouse_x, idle_anchor_mouse_y, seal_active, seal_x,
             seal_y, seal_wander_target_x, seal_wander_target_y,
             seal_wander_dir_time, current_gif, flipped, seal_should_appear,
             seal_should_disappear>>

appVars == <<now_ms, ticks, seal_visible, seal_widget_x, seal_widget_y, tick_state0, tick_entry, tick_dist2,
             tick_moved, tick_seal0, spawn_count, despawn_count, drag_from>>

qVars == <<q_backend, q_use_gi, hybrid, queries, q_last, q_run>>

loopVars == <<app_pc, step, cursor, timer_active, tray_visible, pump_left,
              loop_ticks, sample, tick_log, rendered, reentered, late_query,
              quit_raised>>

stepVars == <<step_pet0, step_sample, steps, mv, moves, still>>

\* What the selection, the tick loop and the idle ramp leave alone.
devVars == <<mice_dev, mice_last, mice_arrived, mice_counted, mice_dropped,
             drains>>

auxVars == <<qVars, loopVars, stepVars, devVars>>

vars == <<selVars, petVars, appVars, idle_pick, auxVars>>

(***************************************************************************)
(* Backend selection                                                       *)
(***************************************************************************)

Candidates == {"win32", "hyprland", "gnome", "kde", "hybrid", "x11", "qt"}

\* What each constructor can meet.  "ok" is a successful construction; every
\* other value names the statement of __init__ that raises.
HyprFates == {"ok", "connect_fails", "bad_response"}

GnomeFates == {"gi_ok", "subprocess_ok", "gdbus_fails", "gdbus_missing"}

KDEFates == {"ok", "bus_not_connected", "register_service_fails",
             "register_object_fails", "unload_raises", "load_fails",
             "no_cursor_data"}

HybridFates == {"ok", "mice_unreadable", "no_libx11", "load_library_raises",
                "no_display"}

X11Fates == {"ok", "no_libx11", "no_display"}

Win32Fates == {"ok", "windll_missing"}

\* The exception raised by a failing constructor.
ExcOf(fate) ==
  CASE fate \in {"connect_fails", "load_library_raises"} -> "OSError"
    [] fate = "bad_response" -> "ValueError"
    [] fate = "gdbus_missing" -> "FileNotFoundError"
    [] fate = "unload_raises" -> "TimeoutExpired"
    [] fate = "windll_missing" -> "AttributeError"
    [] OTHER -> "RuntimeError"

\* `except Exception:` catches every exception a constructor raises.
CatchesOnlyRuntimeError(exc) == exc = "RuntimeError"

Catches(exc) ==
  exc \in {"RuntimeError", "OSError", "ValueError", "FileNotFoundError",
           "TimeoutExpired", "AttributeError"}

\* _HyprlandCursor.__init__: the smoke test opens the socket in a `with`
\* block, so nothing stays open whether it succeeds or raises.
HyprlandInit(fate) == [ok |-> fate = "ok", held |-> {}]

\* _GnomeCursor.__init__: the gi path, then the gdbus subprocess path.
GnomeInit(fate) == [ok |-> fate \in {"gi_ok", "subprocess_ok"}, held |-> {}]

\* _KDECursor.close(): unloads the script, removes the files, unregisters.
KDEClose(h) == h \ {"kwin_script", "temp_files", "bus_object", "bus_service"}

\* _KDECursor.__init__: the resources held when it returns or raises.
KDEInit(fate) ==
  CASE fate = "ok" ->
         [ok |-> TRUE,
          held |-> {"bus_service", "bus_object", "temp_files", "kwin_script"}]
    [] fate \in {"bus_not_connected", "register_service_fails"} ->
         [ok |-> FALSE, held |-> {}]
    [] fate = "register_object_fails" ->
         [ok |-> FALSE, held |-> {"bus_service"}]
    [] fate = "unload_raises" ->
         [ok |-> FALSE, held |-> {"bus_service", "bus_object", "temp_files"}]
    [] fate = "load_fails" ->
         [ok |-> FALSE,
          held |-> KDEClose({"bus_service", "bus_object", "temp_files"})]
    [] fate = "no_cursor_data" ->
         [ok |-> FALSE,
          held |-> KDEClose({"bus_service", "bus_object", "temp_files",
                             "kwin_script"})]

\* os.close(fd) inside a constructor.
OsClose(h, r) == h \ {r}

\* _WaylandHybridCursor.__init__: os.close(self._mice_fd) precedes two of the
\* raises; an exception out of LoadLibrary leaves the descriptor open.
HybridInit(fate) ==
  CASE fate = "ok" -> [ok |-> TRUE, held |-> {"mice_fd", "x_display"}]
    [] fate = "mice_unreadable" -> [ok |-> FALSE, held |-> {}]
    [] fate = "no_libx11" -> [ok |-> FALSE, held |-> OsClose({"mice_fd"}, "mice_fd")]
    [] fate = "load_library_raises" -> [ok |-> FALSE, held |-> {"mice_fd"}]
    [] fate = "no_display" -> [ok |-> FALSE, held |-> OsClose({"mice_fd"}, "mice_fd")]

\* _X11Cursor.__init__
X11Init(fate) ==
  IF fate = "ok" THEN [ok |-> TRUE, held |-> {"x_display"}]
  ELSE [ok |-> FALSE, held |-> {}]

\* _Win32Cursor.__init__
Win32Init(fate) == [ok |-> fate = "ok", held |-> {}]

\* One `try: return C() / except Exception: pass` block of
\* create_cursor_tracker: the constructor runs; on success the instance is
\* returned, on a caught exception control falls to `next`, on any other
\* exception the call is left.  close() is not called on the failed instance.
TryBlock(c, r, exc, next) ==
  /\ attempted' = Append(attempted, c)
  /\ outcome' = [outcome EXCEPT ![c] = IF r.ok THEN "ok" ELSE "failed"]
  /\ held' = [held EXCEPT ![c] = r.held]
  /\ closed_by_sel' = closed_by_sel
  /\ selected' = IF r.ok THEN c ELSE "none"
  /\ sel_raised' = (~r.ok /\ ~Catches(exc))
  /\ sel_pc' = IF r.ok THEN "done"
               ELSE IF Catches(exc) THEN next ELSE "raised"

\* Control falls past a block whose guard is false.
SkipBlock(next) ==
  /\ sel_pc' = next
  /\ UNCHANGED <<attempted, outcome, held, closed_by_sel, selected, sel_raised>>

envUnchanged == UNCHANGED <<platform, is_wayland, hypr_sig, desktop>>

otherUnchangedSel == UNCHANGED <<petVars, appVars, idle_pick, auxVars>>

\* The platform and session dispatch at the top of create_cursor_tracker.
SelDispatch ==
  /\ sel_pc = "start"
  /\ SkipBlock(IF platform = "win32" THEN "win32"
               ELSE IF platform = "linux"
                    THEN (IF is_wayland THEN "hyprland" ELSE "x11")
                    ELSE "qt")
  /\ envUnchanged /\ otherUnchangedSel

TryWin32 ==
  /\ sel_pc = "win32"
  /\ \E f \in Win32Fates : TryBlock("win32", Win32Init(f), ExcOf(f), "qt")
  /\ envUnchanged /\ otherUnchangedSel

TryHyprland ==
  /\ sel_pc = "hyprland"
  /\ IF hypr_sig
       THEN \E f \in HyprFates :
              TryBlock("hyprland", HyprlandInit(f), ExcOf(f), "gnome")
       ELSE SkipBlock("gnome")
  /\ envUnchanged /\ otherUnchangedSel

TryGnome ==
  /\ sel_pc = "gnome"
  /\ IF "GNOME" \in desktop
       THEN \E f \in GnomeFates :
              TryBlock("gnome", GnomeInit(f), ExcOf(f), "kde")
       ELSE SkipBlock("kde")
  /\ envUnchanged /\ otherUnchangedSel

TryKDESkipsHybrid ==
  /\ sel_pc = "kde"
  /\ IF "KDE" \in desktop
       THEN \E f \in KDEFates :
              TryBlock("kde", KDEInit(f), ExcOf(f), "x11")
       ELSE SkipBlock("hybrid")
  /\ envUnchanged /\ otherUnchangedSel

TryKDE ==
  /\ sel_pc = "kde"
  /\ IF "KDE" \in desktop
       THEN \E f \in KDEFates :
              TryBlock("kde", KDEInit(f), ExcOf(f), "hybrid")
       ELSE SkipBlock("hybrid")
  /\ envUnchanged /\ otherUnchangedSel

TryHybrid ==
  /\ sel_pc = "hybrid"
  /\ \E f \in HybridFates : TryBlock("hybrid", HybridInit(f), ExcOf(f), "x11")
  /\ envUnchanged /\ otherUnchangedSel

TryX11 ==
  /\ sel_pc = "x11"
  /\ \E f \in X11Fates : TryBlock("x11", X11Init(f), ExcOf(f), "qt")
  /\ envUnchanged /\ otherUnchangedSel

\* `return _QtCursor()`: the class has no __init__ of its own.
ReturnQt ==
  /\ sel_pc = "qt"
  /\ attempted' = Append(attempted, "qt")
  /\ outcome' = [outcome EXCEPT !["qt"] = "ok"]
  /\ selected' = "qt"
  /\ sel_pc' = "done"
  /\ UNCHANGED <<held, closed_by_sel, sel_raised>>
  /\ envUnchanged /\ otherUnchangedSel

(***************************************************************************)
(* Configuration (config.py).  Lengths are pixels, times milliseconds.      *)
(* Coordinates are held as integers in units of 1/PX pixel, so that the     *)
(* float WANDER_SPEED = 1.5 px is the integer 3.                            *)
(***************************************************************************)

PX == 2

MOVE_SPEED == 4 * PX

WANDER_SPEED == (3 * PX) \div 2

NEAR_DISTANCE == 80

FAR_DISTANCE == 250

WANDER_DURATION_MIN == 2000

WANDER_DURATION_MAX == 4000

WANDER_RADIUS == 80

WANDER_DIR_CHANGE_MIN == 500

WANDER_DIR_CHANGE_MAX == 1500

IDLE_MIN_DURATION == 2000

IDLE_MAX_DURATION == 6000

MOUSE_MOVE_THRESHOLD == 5

MOUSE_IDLE_T1 == 30000

MOUSE_IDLE_T2 == 120000

IDLE2_RAMP_DURATION == 60000

SEAL_WANDER_RADIUS == 120

SEAL_WANDER_MIN == 20

WANDER_MIN == 20

TICK_INTERVAL == 33

REFERENCE_SCREEN_HEIGHT == 1280

PET_MARGIN == 30

SEAL_MARGIN == 100

GIF_MOVE == "move"

GIF_DRAG == "drag"

GIF_IDLE == <<"idle1", "idle2", "idle3", "idle4", "idle5">>

GIF_IDLE2 == "idle2"

\* Pet.move_speed and Pet.wander_speed, set from the configuration in __init__.
move_speed == MOVE_SPEED

wander_speed == WANDER_SPEED

\* PetState
CHASING == "chasing"

WANDERING == "wandering"

IDLING == "idling"

DRAGGING == "dragging"

SEAL_MODE == "seal_mode"

PetState == {CHASING, WANDERING, IDLING, DRAGGING, SEAL_MODE}

(***************************************************************************)
(* Bounds of the model and the inputs drawn                                 *)
(***************************************************************************)

\* Ticks run by the tick loop.
MaxTicks == 5

\* Width of the primary screen's available geometry, in pixels; its height is
\* REFERENCE_SCREEN_HEIGHT, for which adapt_to_screen leaves the base values.
ScreenW == 1600

\* Pixel size of the seal sprite widget.
SealSpriteW == 45

SealSpriteH == 40

\* Steps of the mouse-idle time in SpecIdle.
MaxIdleSteps == 10

ScreenLeft == 0

ScreenTop == 0

ScreenRight == ScreenLeft + ScreenW - 1

ScreenBottom == ScreenTop + REFERENCE_SCREEN_HEIGHT - 1

\* QRect.center()
StartX == (ScreenLeft + ScreenRight) \div 2

StartY == (ScreenTop + ScreenBottom) \div 2

\* Pointer positions a query returns, in pixels: the start position, a point
\* MOUSE_MOVE_THRESHOLD away from it, one between NEAR_DISTANCE and
\* FAR_DISTANCE away and one farther than FAR_DISTANCE.
PtStart == <<StartX, StartY>>

PtStep == <<StartX + 3, StartY + 4>>

PtBand == <<StartX + 200, StartY>>

PtFar == <<StartX - 180, StartY + 240>>

\* Elapsed time between two ticks: the timer interval, or a late tick.
LateTick == MOUSE_IDLE_T2 + TICK_INTERVAL

\* What one tick is fed: <<pointer position, button pressed, elapsed ms>>.
Samples ==
  {<<PtStart, FALSE, TICK_INTERVAL>>, <<PtStep, FALSE, TICK_INTERVAL>>,
   <<PtBand, FALSE, TICK_INTERVAL>>, <<PtFar, FALSE, TICK_INTERVAL>>,
   <<PtStart, TRUE, TICK_INTERVAL>>, <<PtBand, TRUE, TICK_INTERVAL>>,
   <<PtStart, FALSE, LateTick>>, <<PtBand, FALSE, LateTick>>}

\* The draws of one wander-target pick: <<cos, sin>> of
\* random.uniform(0, 2*pi) (the angles pi/2 and pi),
\* random.uniform(20, WANDER_RADIUS) and
\* random.randint(WANDER_DIR_CHANGE_MIN, WANDER_DIR_CHANGE_MAX).
WanderDraws ==
  {<< <<0, 1>>, WANDER_MIN, WANDER_DIR_CHANGE_MAX >>,
   << <<-1, 0>>, WANDER_RADIUS, WANDER_DIR_CHANGE_MIN >>}

\* The draws of one _init_wander: random.randint(WANDER_DURATION_MIN,
\* WANDER_DURATION_MAX), then the draws of its wander-target pick.
InitWanderDraws ==
  {<<WANDER_DURATION_MIN, << <<0, 1>>, WANDER_MIN, WANDER_DIR_CHANGE_MAX >> >>,
   <<WANDER_DURATION_MAX, << <<-1, 0>>, WANDER_RADIUS, WANDER_DIR_CHANGE_MIN >> >>}

\* The same draws in seal mode, with random.uniform(20, SEAL_WANDER_RADIUS).
SealWanderDraws ==
  {<< <<0, 1>>, SEAL_WANDER_MIN, WANDER_DIR_CHANGE_MAX >>,
   << <<-1, 0>>, SEAL_WANDER_RADIUS, WANDER_DIR_CHANGE_MIN >>}

\* random.randint(geo.left() + margin, geo.right() - margin) in _show_seal
SealPts ==
  {<<StartX + 60, StartY>>, <<ScreenRight - SEAL_MARGIN, ScreenTop + SEAL_MARGIN>>}

(***************************************************************************)
(* Arithmetic                                                               *)
(***************************************************************************)

Sq(a) == a * a

\* dx*dx + dy*dy: math.hypot(dx, dy) squared
Hypot2(dx, dy) == Sq(dx) + Sq(dy)

Max(a, b) == IF a > b THEN a ELSE b

Min(a, b) == IF a < b THEN a ELSE b

RECURSIVE SqrtIn(_, _, _)
SqrtIn(n, lo, hi) ==
  IF lo >= hi THEN lo
  ELSE LET mid == (lo + hi + 1) \div 2
       IN IF Sq(mid) <= n THEN SqrtIn(n, mid, hi) ELSE SqrtIn(n, lo, mid - 1)

\* floor of the square root
ISqrt(n) == SqrtIn(n, 0, Min(n, 40000))

\* |d / dist * speed| for dist = sqrt(dist2), rounded toward zero to the
\* model's resolution
StepLen(d, dist2, speed) == ISqrt(Sq(d * speed) \div dist2)

StepOf(d, dist2, speed) ==
  IF d < 0 THEN -StepLen(-d, dist2, speed) ELSE StepLen(d, dist2, speed)

(***************************************************************************)
(* Pet (pet.py).  A Pet object is the record of its fields; the methods are *)
(* operators from records to records, or to the set of records the random   *)
(* draws allow.  The field `raised` marks an object a method of which was   *)
(* left by an exception.                                                    *)
(***************************************************************************)

\* Pet.__init__(start_x, start_y)
PetInit(sx, sy) ==
  [x |-> sx, y |-> sy, state |-> CHASING, prev_state |-> CHASING,
   mouse_x |-> sx, mouse_y |-> sy, last_mouse_x |-> sx, last_mouse_y |-> sy,
   mouse_idle_start_ms |-> 0, mouse_idle_time |-> 0, mouse_pressed |-> FALSE,
   wander_anchor_x |-> sx, wander_anchor_y |-> sy,
   wander_target_x |-> sx, wander_target_y |-> sy,
   wander_end_time |-> 0, wander_dir_change_time |-> 0,
   idle_end_time |-> 0, idle_anchor_mouse_x |-> sx, idle_anchor_mouse_y |-> sy,
   seal_active |-> FALSE, seal_x |-> 0, seal_y |-> 0,
   seal_wander_target_x |-> 0, seal_wander_target_y |-> 0,
   seal_wander_dir_time |-> 0,
   current_gif |-> GIF_MOVE, flipped |-> FALSE,
   seal_should_appear |-> FALSE, seal_should_disappear |-> FALSE,
   raised |-> FALSE]

\* The Pet object held in the variables; no exception has left a method.
PetNow ==
  [x |-> x, y |-> y, state |-> state, prev_state |-> prev_state,
   mouse_x |-> mouse_x, mouse_y |-> mouse_y,
   last_mouse_x |-> last_mouse_x, last_mouse_y |-> last_mouse_y,
   mouse_idle_start_ms |-> mouse_idle_start_ms,
   mouse_idle_time |-> mouse_idle_time, mouse_pressed |-> mouse_pressed,
   wander_anchor_x |-> wander_anchor_x, wander_anchor_y |-> wander_anchor_y,
   wander_target_x |-> wander_target_x, wander_target_y |-> wander_target_y,
   wander_end_time |-> wander_end_time,
   wander_dir_change_time |-> wander_dir_change_time,
   idle_end_time |-> idle_end_time,
   idle_anchor_mouse_x |-> idle_anchor_mouse_x,
   idle_anchor_mouse_y |-> idle_anchor_mouse_y,
   seal_active |-> seal_active, seal_x |-> seal_x, seal_y |-> seal_y,
   seal_wander_target_x |-> seal_wander_target_x,
   seal_wander_target_y |-> seal_wander_target_y,
   seal_wander_dir_time |-> seal_wander_dir_time,
   current_gif |-> current_gif, flipped |-> flipped,
   seal_should_appear |-> seal_should_appear,
   seal_should_disappear |-> seal_should_disappear,
   raised |-> FALSE]

\* The variables hold the fields of the Pet object q.
PetIs(q) ==
  /\ x = q.x /\ y = q.y /\ state = q.state /\ prev_state = q.prev_state
  /\ mouse_x = q.mouse_x /\ mouse_y = q.mouse_y
  /\ last_mouse_x = q.last_mouse_x /\ last_mouse_y = q.last_mouse_y
  /\ mouse_idle_start_ms = q.mouse_idle_start_ms
  /\ mouse_idle_time = q.mouse_idle_time
  /\ mouse_pressed = q.mouse_pressed
  /\ wander_anchor_x = q.wander_anchor_x
  /\ wander_anchor_y = q.wander_anchor_y
  /\ wander_target_x = q.wander_target_x
  /\ wander_target_y = q.wander_target_y
  /\ wander_end_time = q.wander_end_time
  /\ wander_dir_change_time = q.wander_dir_change_time
  /\ idle_end_time = q.idle_end_time
  /\ idle_anchor_mouse_x = q.idle_anchor_mouse_x
  /\ idle_anchor_mouse_y = q.idle_anchor_mouse_y
  /\ seal_active = q.seal_active /\ seal_x = q.seal_x /\ seal_y = q.seal_y
  /\ seal_wander_target_x = q.seal_wander_target_x
  /\ seal_wander_target_y = q.seal_wander_target_y
  /\ seal_wander_dir_time = q.seal_wander_dir_time
  /\ current_gif = q.current_gif /\ flipped = q.flipped
  /\ seal_should_appear = q.seal_should_appear
  /\ seal_should_disappear = q.seal_should_disappear

\* The variables take the fields of the Pet object q in the next state.
SetPet(q) ==
  /\ x' = q.x /\ y' = q.y /\ state' = q.state /\ prev_state' = q.prev_state
  /\ mouse_x' = q.mouse_x /\ mouse_y' = q.mouse_y
  /\ last_mouse_x' = q.last_mouse_x /\ last_mouse_y' = q.last_mouse_y
  /\ mouse_idle_start_ms' = q.mouse_idle_start_ms
  /\ mouse_idle_time' = q.mouse_idle_time
  /\ mouse_pressed' = q.mouse_pressed
  /\ wander_anchor_x' = q.wander_anchor_x
  /\ wander_anchor_y' = q.wander_anchor_y
  /\ wander_target_x' = q.wander_target_x
  /\ wander_target_y' = q.wander_target_y
  /\ wander_end_time' = q.wander_end_time
  /\ wander_dir_change_time' = q.wander_dir_change_time
  /\ idle_end_time' = q.idle_end_time
  /\ idle_anchor_mouse_x' = q.idle_anchor_mouse_x
  /\ idle_anchor_mouse_y' = q.idle_anchor_mouse_y
  /\ seal_active' = q.seal_active /\ seal_x' = q.seal_x /\ seal_y' = q.seal_y
  /\ seal_wander_target_x' = q.seal_wander_target_x
  /\ seal_wander_target_y' = q.seal_wander_target_y
  /\ seal_wander_dir_time' = q.seal_wander_dir_time
  /\ current_gif' = q.current_gif /\ flipped' = q.flipped
  /\ seal_should_appear' = q.seal_should_appear
  /\ seal_should_disappear' = q.seal_should_disappear

\* A Pet that takes the sample at the origin for no movement.
MovedUnlessOrigin(p, mx, my) ==
  /\ Hypot2(mx - p.last_mouse_x, my - p.last_mouse_y)
       > Sq(MOUSE_MOVE_THRESHOLD * PX)
  /\ <<mx, my>> # <<0, 0>>

\* The local `moved` of Pet.update_mouse
Moved(p, mx, my) ==
  Hypot2(mx - p.last_mouse_x, my - p.last_mouse_y) > Sq(MOUSE_MOVE_THRESHOLD * PX)

\* Pet.update_mouse(mx, my, buttons_pressed, now_ms)
UpdateMouseKeepsSeal(p, mx, my, pressed, now) ==
  LET moved == Moved(p, mx, my)
  IN [p EXCEPT
        !.mouse_pressed = pressed,
        !.mouse_idle_start_ms = IF moved THEN now ELSE @,
        !.mouse_idle_time = IF moved THEN 0 ELSE now - p.mouse_idle_start_ms,
        !.seal_should_disappear = IF moved /\ p.seal_active THEN TRUE ELSE @,
        !.last_mouse_x = mx, !.last_mouse_y = my,
        !.mouse_x = mx, !.mouse_y = my]

\* update_mouse that measures the idle time from time 0.
UpdateMouseIdleFromZero(p, mx, my, pressed, now) ==
  LET moved == Moved(p, mx, my)
  IN [p EXCEPT
        !.mouse_pressed = pressed,
        !.mouse_idle_start_ms = IF moved THEN now ELSE @,
        !.mouse_idle_time = IF moved THEN 0 ELSE now,
        !.seal_active = IF moved THEN FALSE ELSE @,
        !.seal_should_disappear = IF moved /\ p.seal_active THEN TRUE ELSE @,
        !.last_mouse_x = mx, !.last_mouse_y = my,
        !.mouse_x = mx, !.mouse_y = my]

\* An update_mouse that measures the displacement from the sample of the
\* last movement.
UpdateMouseFromLastMove(p, mx, my, pressed, now) ==
  LET moved == Moved(p, mx, my)
  IN [p EXCEPT
        !.mouse_pressed = pressed,
        !.mouse_idle_start_ms = IF moved THEN now ELSE @,
        !.mouse_idle_time = IF moved THEN 0 ELSE now - p.mouse_idle_start_ms,
        !.seal_active = IF moved THEN FALSE ELSE @,
        !.seal_should_disappear = IF moved /\ p.seal_active THEN TRUE ELSE @,
        !.last_mouse_x = IF moved THEN mx ELSE @,
        !.last_mouse_y = IF moved THEN my ELSE @,
        !.mouse_x = mx, !.mouse_y = my]

UpdateMouse(p, mx, my, pressed, now) ==
  LET moved == Moved(p, mx, my)
  IN [p EXCEPT
        !.mouse_pressed = pressed,
        !.mouse_idle_start_ms = IF moved THEN now ELSE @,
        !.mouse_idle_time = IF moved THEN 0 ELSE now - p.mouse_idle_start_ms,
        !.seal_active = IF moved THEN FALSE ELSE @,
        !.seal_should_disappear = IF moved /\ p.seal_active THEN TRUE ELSE @,
        !.last_mouse_x = mx, !.last_mouse_y = my,
        !.mouse_x = mx, !.mouse_y = my]

\* Pet.set_seal_position(sx, sy)
SetSealPosition(p, sx, sy) == [p EXCEPT !.seal_x = sx, !.seal_y = sy]

\* An arrival test that leaves dist == speed to the division.
ArrivesStrict(dist2, speed) == dist2 < Sq(speed)

\* "if dist <= speed", with dist2 = dist squared
Arrives(dist2, speed) == dist2 <= Sq(speed)

\* "dx / dist" raises ZeroDivisionError when it is evaluated with dist == 0.0
MoveRaises(dist2, speed) == ~Arrives(dist2, speed) /\ dist2 = 0

\* A step that leaves the pet where it is.
MoveTowardStays(p, dx, dy, dist2, speed) == p

\* A _move_toward that always takes a step of length speed.
MoveTowardUncapped(p, dx, dy, dist2, speed) ==
  IF dist2 = 0 THEN p
  ELSE [p EXCEPT !.x = @ + StepOf(dx, dist2, speed),
                 !.y = @ + StepOf(dy, dist2, speed)]

\* Pet._move_toward(dx, dy, dist, speed), with dist2 = dist squared.  A call
\* that raises leaves the position as it was.
MoveToward(p, dx, dy, dist2, speed) ==
  IF Arrives(dist2, speed)
    THEN [p EXCEPT !.x = @ + dx, !.y = @ + dy]
  ELSE IF MoveRaises(dist2, speed)
    THEN [p EXCEPT !.raised = TRUE]
  ELSE [p EXCEPT !.x = @ + StepOf(dx, dist2, speed),
                 !.y = @ + StepOf(dy, dist2, speed)]

\* Pet._pick_wander_target(now_ms), with its draws w
WanderTarget(p, now, w) ==
  [p EXCEPT
     !.wander_target_x = p.wander_anchor_x + w[2] * PX * w[1][1],
     !.wander_target_y = p.wander_anchor_y + w[2] * PX * w[1][2],
     !.wander_dir_change_time = now + w[3]]

\* Pet._pick_wander_target(now_ms), over every draw
PickWanderTarget(p, now) == {WanderTarget(p, now, w) : w \in WanderDraws}

\* The target taken from a source other than the draws the timers come from.
InitWanderUnseeded(p, now) ==
  {[WanderTarget([p EXCEPT !.wander_anchor_x = p.mouse_x,
                           !.wander_anchor_y = p.mouse_y,
                           !.wander_end_time = now + d[1]], now, d[2])
      EXCEPT !.wander_target_x = p.mouse_x + e[2][2] * PX * e[2][1][1],
             !.wander_target_y = p.mouse_y + e[2][2] * PX * e[2][1][2]] :
     d \in InitWanderDraws, e \in InitWanderDraws}

\* Pet._init_wander(now_ms)
InitWander(p, now) ==
  {WanderTarget([p EXCEPT !.wander_anchor_x = p.mouse_x,
                          !.wander_anchor_y = p.mouse_y,
                          !.wander_end_time = now + d[1]], now, d[2]) :
     d \in InitWanderDraws}

(***************************************************************************)
(* Pet._pick_idle_gif.  Probabilities are exact fractions over ProbDen; the *)
(* random.random() draw is the fraction r / RandGrid.                       *)
(***************************************************************************)

\* n = len(config.GIF_IDLE)
NIdle == Len(GIF_IDLE)

ProbDen == NIdle * Max(NIdle - 1, 1) * IDLE2_RAMP_DURATION

\* Mouse-idle times SpecIdle steps through, and the grid of its draws: every
\* cumulative probability at a multiple of IdleStep is a multiple of 1/RandGrid.
IdleStep == MOUSE_IDLE_T1 \div 2

RandGrid == NIdle * (IDLE2_RAMP_DURATION \div IdleStep)

\* ramp = min(elapsed / IDLE2_RAMP_DURATION, 1.0), as a numerator over
\* IDLE2_RAMP_DURATION
RampNum(idle_time) == Min(idle_time - MOUSE_IDLE_T1, IDLE2_RAMP_DURATION)

\* base = 1.0 / n
BaseNum == ProbDen \div NIdle

\* idle2_prob = base + ramp * (1.0 - base)
Idle2ProbRampOnly(idle_time) ==
  RampNum(idle_time) * (ProbDen \div IDLE2_RAMP_DURATION)

Idle2Prob(idle_time) ==
  BaseNum + RampNum(idle_time) * ((ProbDen - BaseNum) \div IDLE2_RAMP_DURATION)

\* other_prob = (1.0 - idle2_prob) / max(n - 1, 1)
OtherProbOverN(idle_time) == (ProbDen - Idle2Prob(idle_time)) \div NIdle

OtherProb(idle_time) == (ProbDen - Idle2Prob(idle_time)) \div Max(NIdle - 1, 1)

\* prob = idle2_prob if gif == config.GIF_IDLE2 else other_prob
ProbOf(i, idle_time) ==
  IF GIF_IDLE[i] = GIF_IDLE2 THEN Idle2Prob(idle_time) ELSE OtherProb(idle_time)

\* `cumulative` after the i-th iteration of the loop
RECURSIVE Cumulative(_, _)
Cumulative(i, idle_time) ==
  IF i = 0 THEN 0 ELSE Cumulative(i - 1, idle_time) + ProbOf(i, idle_time)

\* r < cumulative, for r = rnum / RandGrid
DrawBelow(rnum, cum) == rnum * ProbDen < cum * RandGrid

\* Pet._pick_idle_gif(), given the value random.choice would pick (an index
\* into GIF_IDLE) and the numerator of the random.random() draw
PickIdleGif(idle_time, choice, rnum) ==
  IF NIdle = 0 THEN GIF_MOVE
  ELSE IF idle_time < MOUSE_IDLE_T1 THEN GIF_IDLE[choice]
  ELSE LET hits == {i \in 1..NIdle : DrawBelow(rnum, Cumulative(i, idle_time))}
       IN IF hits = {} THEN GIF_IDLE[NIdle]
          ELSE GIF_IDLE[CHOOSE i \in hits : \A j \in hits : i <= j]

\* The draws of one idle-animation pick in the tick loop: the index
\* random.choice picks, the numerator of random.random(), and
\* random.randint(IDLE_MIN_DURATION, IDLE_MAX_DURATION).
IdleDraws ==
  {<<2, 0, IDLE_MIN_DURATION>>, <<NIdle, RandGrid - 1, IDLE_MAX_DURATION>>}

(***************************************************************************)
(* Pet state handlers and Pet.tick                                          *)
(***************************************************************************)

\* Pet._init_idle(now_ms)
InitIdle(p, now) ==
  {[p EXCEPT
      !.idle_anchor_mouse_x = p.mouse_x, !.idle_anchor_mouse_y = p.mouse_y,
      !.current_gif = PickIdleGif(p.mouse_idle_time, w[1], w[2]),
      !.idle_end_time = now + w[3],
      !.flipped = FALSE] :
     w \in IdleDraws}

\* dist < config.NEAR_DISTANCE
Near(dist2) == dist2 < Sq(NEAR_DISTANCE * PX)

\* dist > config.FAR_DISTANCE
FarAboveNear(dist2) == dist2 > Sq(NEAR_DISTANCE * PX)

Far(dist2) == dist2 > Sq(FAR_DISTANCE * PX)

\* "seal condition: mouse has been idle for a very long time"
SealDueByStart(p) == ~p.seal_active /\ p.mouse_idle_start_ms > MOUSE_IDLE_T2

SealDue(p) == ~p.seal_active /\ p.mouse_idle_time > MOUSE_IDLE_T2

\* A drag that carries the pet to the pointer.
HandleDraggingFollows(p, dx, dy, dist2, now) ==
  {[p EXCEPT !.x = @ + dx, !.y = @ + dy,
             !.current_gif = GIF_DRAG, !.flipped = FALSE]}

\* Pet._handle_dragging
HandleDragging(p, dx, dy, dist2, now) ==
  {[p EXCEPT !.current_gif = GIF_DRAG, !.flipped = FALSE]}

\* A chase that ends in WANDERING without _init_wander.
HandleChasingNoInit(p, dx, dy, dist2, now) ==
  IF Near(dist2)
    THEN {[p EXCEPT !.state = WANDERING]}
    ELSE {[MoveToward(p, dx, dy, dist2, move_speed) EXCEPT
             !.current_gif = GIF_MOVE, !.flipped = (dx < 0)]}

\* Pet._handle_chasing
HandleChasing(p, dx, dy, dist2, now) ==
  IF Near(dist2)
    THEN InitWander([p EXCEPT !.state = WANDERING], now)
    ELSE {[MoveToward(p, dx, dy, dist2, move_speed) EXCEPT
             !.current_gif = GIF_MOVE, !.flipped = (dx < 0)]}

\* A wander that keeps a sub-target it has reached.
WanderMoveKeepsReached(q, now) ==
  LET wx == q.wander_target_x - q.x
      wy == q.wander_target_y - q.y
      wdist2 == Hypot2(wx, wy)
      moved == IF wdist2 < Sq(wander_speed)
                 THEN {q}
                 ELSE {MoveToward(q, wx, wy, wdist2, wander_speed)}
  IN {[m EXCEPT !.current_gif = GIF_MOVE, !.flipped = (wx < 0)] : m \in moved}

\* The tail of Pet._handle_wandering, from "move toward current wander target"
WanderMove(q, now) ==
  LET wx == q.wander_target_x - q.x
      wy == q.wander_target_y - q.y
      wdist2 == Hypot2(wx, wy)
      moved == IF wdist2 < Sq(wander_speed)
                 THEN PickWanderTarget(q, now)
                 ELSE {MoveToward(q, wx, wy, wdist2, wander_speed)}
  IN {[m EXCEPT !.current_gif = GIF_MOVE, !.flipped = (wx < 0)] : m \in moved}

\* A wander that looks at its end timer before the distance.
HandleWanderingTimerFirst(p, dx, dy, dist2, now) ==
  IF now > p.wander_end_time
    THEN InitIdle([p EXCEPT !.state = IDLING], now)
  ELSE IF Far(dist2) /\ ~p.seal_active
    THEN {[p EXCEPT !.state = CHASING]}
  ELSE LET anchored ==
             IF p.seal_active
               THEN [p EXCEPT !.wander_anchor_x = p.seal_x,
                              !.wander_anchor_y = p.seal_y]
               ELSE [p EXCEPT !.wander_anchor_x = p.mouse_x,
                              !.wander_anchor_y = p.mouse_y]
           picked == IF now > anchored.wander_dir_change_time
                       THEN PickWanderTarget(anchored, now)
                       ELSE {anchored}
       IN UNION {WanderMove(q, now) : q \in picked}

\* Pet._handle_wandering
HandleWandering(p, dx, dy, dist2, now) ==
  IF Far(dist2) /\ ~p.seal_active
    THEN {[p EXCEPT !.state = CHASING]}
  ELSE IF now > p.wander_end_time
    THEN InitIdle([p EXCEPT !.state = IDLING], now)
  ELSE LET anchored ==
             IF p.seal_active
               THEN [p EXCEPT !.wander_anchor_x = p.seal_x,
                              !.wander_anchor_y = p.seal_y]
               ELSE [p EXCEPT !.wander_anchor_x = p.mouse_x,
                              !.wander_anchor_y = p.mouse_y]
           picked == IF now > anchored.wander_dir_change_time
                       THEN PickWanderTarget(anchored, now)
                       ELSE {anchored}
       IN UNION {WanderMove(q, now) : q \in picked}

\* An idling that looks at the seal condition before the idle anchor.
HandleIdlingSealFirst(p, dx, dy, dist2, now) ==
  IF Far(dist2) /\ ~p.seal_active
    THEN {[p EXCEPT !.state = CHASING]}
  ELSE IF SealDue(p)
    THEN {[p EXCEPT !.seal_active = TRUE, !.seal_should_appear = TRUE,
                    !.state = SEAL_MODE, !.seal_wander_dir_time = 0]}
  ELSE IF /\ ~p.seal_active
          /\ Hypot2(p.mouse_x - p.idle_anchor_mouse_x,
                    p.mouse_y - p.idle_anchor_mouse_y)
               > Sq(MOUSE_MOVE_THRESHOLD * PX * 10)
    THEN InitWander([p EXCEPT !.state = WANDERING], now)
  ELSE LET switched ==
             IF now > p.idle_end_time
               THEN {[p EXCEPT
                        !.current_gif =
                           PickIdleGif(p.mouse_idle_time, w[1], w[2]),
                        !.idle_end_time = now + w[3]] :
                      w \in IdleDraws}
               ELSE {p}
       IN {[q EXCEPT !.flipped = FALSE] : q \in switched}

\* Pet._handle_idling
HandleIdling(p, dx, dy, dist2, now) ==
  IF Far(dist2) /\ ~p.seal_active
    THEN {[p EXCEPT !.state = CHASING]}
  ELSE IF /\ ~p.seal_active
          /\ Hypot2(p.mouse_x - p.idle_anchor_mouse_x,
                    p.mouse_y - p.idle_anchor_mouse_y)
               > Sq(MOUSE_MOVE_THRESHOLD * PX * 10)
    THEN InitWander([p EXCEPT !.state = WANDERING], now)
  ELSE IF SealDue(p)
    THEN {[p EXCEPT !.seal_active = TRUE, !.seal_should_appear = TRUE,
                    !.state = SEAL_MODE, !.seal_wander_dir_time = 0]}
  ELSE LET switched ==
             IF now > p.idle_end_time
               THEN {[p EXCEPT
                        !.current_gif =
                           PickIdleGif(p.mouse_idle_time, w[1], w[2]),
                        !.idle_end_time = now + w[3]] :
                      w \in IdleDraws}
               ELSE {p}
       IN {[q EXCEPT !.flipped = FALSE] : q \in switched}

\* A walk around the seal at the speed of the chase.
SealWanderMoveFast(q) ==
  LET wx == q.seal_wander_target_x - q.x
      wy == q.seal_wander_target_y - q.y
      wdist2 == Hypot2(wx, wy)
      m == IF wdist2 > Sq(wander_speed)
             THEN MoveToward(q, wx, wy, wdist2, move_speed)
             ELSE q
  IN [m EXCEPT !.current_gif = GIF_MOVE, !.flipped = (wx < 0)]

\* The tail of the wander branch of Pet._handle_seal_mode
SealWanderMove(q) ==
  LET wx == q.seal_wander_target_x - q.x
      wy == q.seal_wander_target_y - q.y
      wdist2 == Hypot2(wx, wy)
      m == IF wdist2 > Sq(wander_speed)
             THEN MoveToward(q, wx, wy, wdist2, wander_speed)
             ELSE q
  IN [m EXCEPT !.current_gif = GIF_MOVE, !.flipped = (wx < 0)]

\* A seal mode that outlives its seal.
HandleSealModeStays(p, dx, dy, dist2, now) ==
  IF ~p.seal_active
    THEN {p}
    ELSE {SealWanderMove(p)}

\* Pet._handle_seal_mode
HandleSealMode(p, dx, dy, dist2, now) ==
  IF ~p.seal_active
    THEN {[p EXCEPT !.state = CHASING]}
  ELSE LET sdx == p.seal_x - p.x
           sdy == p.seal_y - p.y
           sdist2 == Hypot2(sdx, sdy)
       IN IF sdist2 > Sq(NEAR_DISTANCE * PX)
            THEN {[MoveToward(p, sdx, sdy, sdist2, move_speed) EXCEPT
                     !.current_gif = GIF_MOVE, !.flipped = (sdx < 0)]}
            ELSE LET picked ==
                       IF now > p.seal_wander_dir_time
                         THEN {[p EXCEPT
                                  !.seal_wander_target_x =
                                     p.seal_x + w[2] * PX * w[1][1],
                                  !.seal_wander_target_y =
                                     p.seal_y + w[2] * PX * w[1][2],
                                  !.seal_wander_dir_time = now + w[3]] :
                                w \in SealWanderDraws}
                         ELSE {p}
                 IN {SealWanderMove(q) : q \in picked}

\* A drag detection that remembers the state on every tick the button is
\* held.
DragDetectRemembersAlways(p) ==
  IF p.mouse_pressed
    THEN [p EXCEPT !.prev_state = p.state, !.state = DRAGGING]
  ELSE IF p.state = DRAGGING
    THEN [p EXCEPT !.state = p.prev_state]
  ELSE p

\* Pet.tick, "drag detection (overrides any state)"
DragDetectFromChasingOnly(p) ==
  IF p.mouse_pressed /\ p.state = CHASING
    THEN [p EXCEPT !.prev_state = p.state, !.state = DRAGGING]
  ELSE IF ~p.mouse_pressed /\ p.state = DRAGGING
    THEN [p EXCEPT !.state = p.prev_state]
  ELSE p

DragDetectRestoresChasing(p) ==
  IF p.mouse_pressed /\ p.state # DRAGGING
    THEN [p EXCEPT !.prev_state = p.state, !.state = DRAGGING]
  ELSE IF ~p.mouse_pressed /\ p.state = DRAGGING
    THEN [p EXCEPT !.state = CHASING]
  ELSE p

DragDetect(p) ==
  IF p.mouse_pressed /\ p.state # DRAGGING
    THEN [p EXCEPT !.prev_state = p.state, !.state = DRAGGING]
  ELSE IF ~p.mouse_pressed /\ p.state = DRAGGING
    THEN [p EXCEPT !.state = p.prev_state]
  ELSE p

\* A target choice that follows the seal in every state.
TargetOfSealAlways(p) ==
  IF p.seal_active THEN <<p.seal_x, p.seal_y>> ELSE <<p.mouse_x, p.mouse_y>>

\* Pet.tick, "choose target"
TargetOf(p) ==
  IF p.seal_active /\ p.state \notin {DRAGGING}
    THEN <<p.seal_x, p.seal_y>>
    ELSE <<p.mouse_x, p.mouse_y>>

\* The locals dx, dy and dist (squared) of Pet.tick, after the drag detection
TickDx(p) == TargetOf(DragDetect(p))[1] - p.x

TickDy(p) == TargetOf(DragDetect(p))[2] - p.y

TickDist2(p) == Hypot2(TickDx(p), TickDy(p))

\* Pet.tick, "dispatch to current state handler"
Dispatch(q, dx, dy, dist2, now) ==
  CASE q.state = CHASING -> HandleChasing(q, dx, dy, dist2, now)
    [] q.state = WANDERING -> HandleWandering(q, dx, dy, dist2, now)
    [] q.state = IDLING -> HandleIdling(q, dx, dy, dist2, now)
    [] q.state = DRAGGING -> HandleDragging(q, dx, dy, dist2, now)
    [] q.state = SEAL_MODE -> HandleSealMode(q, dx, dy, dist2, now)

\* Pet.tick(now_ms)
PetTick(p, now) ==
  Dispatch(DragDetect(p), TickDx(p), TickDy(p), TickDist2(p), now)

(***************************************************************************)
(* AemeathApp (app.py)                                                      *)
(***************************************************************************)

\* SpriteWidget.move_center_to(x, y): the widget's top-left corner, in pixels
MoveCenterTo(c, size) == c - size \div 2

\* SpriteWidget.center_pos(): x() + width() / 2.0, in units of 1/PX pixel
CenterPos(corner, size) == corner * PX + (size * PX) \div 2

\* "clamp pet position to screen"
Clamp(lo, hi, v) == Max(lo, Min(hi, v))

ClampPet(q) ==
  [q EXCEPT
     !.x = Clamp((ScreenLeft + PET_MARGIN) * PX, (ScreenRight - PET_MARGIN) * PX, @),
     !.y = Clamp((ScreenTop + PET_MARGIN) * PX, (ScreenBottom - PET_MARGIN) * PX, @)]

\* A _tick that leaves the signals of the previous tick standing.
ResetSignalsKeeps(p) == p

\* A _tick that clears the despawn signal only.
ResetSignalsDespawnOnly(p) == [p EXCEPT !.seal_should_disappear = FALSE]

\* "reset one-shot signals before feeding new input"
ResetSignals(p) ==
  [p EXCEPT !.seal_should_appear = FALSE, !.seal_should_disappear = FALSE]

\* AemeathApp._tick with the sample (mx, my, pressed), in pixels, returned by
\* the backend's query and dt milliseconds after the previous tick.
Tick(mx, my, pressed, dt) ==
  LET now == now_ms + dt
      p0 == ResetSignals(PetNow)
      p1 == UpdateMouse(p0, mx * PX, my * PX, pressed, now)
  IN /\ ticks < MaxTicks
     /\ \E q \in PetTick(p1, now) :
          \E sp \in (IF q.seal_should_appear THEN SealPts ELSE {<<0, 0>>}) :
            LET wx == IF q.seal_should_appear
                        THEN MoveCenterTo(sp[1], SealSpriteW) ELSE seal_widget_x
                wy == IF q.seal_should_appear
                        THEN MoveCenterTo(sp[2], SealSpriteH) ELSE seal_widget_y
                vis == IF q.seal_should_disappear THEN FALSE
                       ELSE IF q.seal_should_appear THEN TRUE ELSE seal_visible
                q2 == IF vis
                        THEN SetSealPosition(q, CenterPos(wx, SealSpriteW),
                                             CenterPos(wy, SealSpriteH))
                        ELSE q
            IN /\ SetPet(ClampPet(q2))
               /\ seal_widget_x' = wx
               /\ seal_widget_y' = wy
               /\ seal_visible' = vis
               /\ spawn_count' = IF q.seal_should_appear
                                   THEN (IF seal_active THEN spawn_count + 1 ELSE 1)
                                   ELSE IF q.seal_active THEN spawn_count ELSE 0
               /\ despawn_count' = IF q.seal_should_disappear
                                     THEN despawn_count + 1
                                     ELSE IF q.seal_should_appear THEN 0
                                     ELSE despawn_count
     /\ now_ms' = now
     /\ ticks' = ticks + 1
     /\ tick_state0' = state
     /\ tick_entry' = DragDetect(p1).state
     /\ tick_dist2' = TickDist2(p1)
     /\ tick_moved' = Moved(p0, mx * PX, my * PX)
     /\ tick_seal0' = seal_active
     /\ drag_from' = IF pressed /\ state # DRAGGING THEN state ELSE drag_from
     /\ UNCHANGED <<selVars, idle_pick, auxVars>>

\* Pet._pick_idle_gif() called at the current mouse-idle time
IdlePick ==
  /\ \E c \in 1..NIdle, r \in 0..(RandGrid - 1) :
       \* random.choice is drawn before MOUSE_IDLE_T1 only, random.random
       \* from MOUSE_IDLE_T1 on only
       /\ IF mouse_idle_time < MOUSE_IDLE_T1 THEN r = 0 ELSE c = 1
       /\ current_gif' = PickIdleGif(mouse_idle_time, c, r)
       /\ idle_pick' = <<mouse_idle_time, c, r>>
  /\ UNCHANGED <<selVars, appVars, auxVars>>
  /\ UNCHANGED <<x, y, state, prev_state, mouse_x, mouse_y, last_mouse_x,
                 last_mouse_y, mouse_idle_start_ms, mouse_idle_time,
                 mouse_pressed, wander_anchor_x, wander_anchor_y,
                 wander_target_x, wander_target_y, wander_end_time,
                 wander_dir_change_time, idle_end_time, idle_anchor_mouse_x,
                 idle_anchor_mouse_y, seal_active, seal_x, seal_y,
                 seal_wander_target_x, seal_wander_target_y,
                 seal_wander_dir_time, flipped, seal_should_appear,
                 seal_should_disappear>>

\* The pointer stays still for another IdleStep milliseconds.
IdleAdvance ==
  /\ mouse_idle_time < MaxIdleSteps * IdleStep
  /\ mouse_idle_time' = mouse_idle_time + IdleStep
  /\ UNCHANGED <<selVars, appVars, idle_pick, auxVars>>
  /\ UNCHANGED <<x, y, state, prev_state, mouse_x, mouse_y, last_mouse_x,
                 last_mouse_y, mouse_idle_start_ms, mouse_pressed,
                 wander_anchor_x, wander_anchor_y, wander_target_x,
                 wander_target_y, wander_end_time, wander_dir_change_time,
                 idle_end_time, idle_anchor_mouse_x, idle_anchor_mouse_y,
                 seal_active, seal_x, seal_y, seal_wander_target_x,
                 seal_wander_target_y, seal_wander_dir_time, current_gif,
                 flipped, seal_should_appear, seal_should_disappear>>

(***************************************************************************)
(* The query methods of the backends (cursor.py)                            *)
(***************************************************************************)

\* Queries made in SpecQuery.
MaxQueries == 4

\* XDisplayWidth and XDisplayHeight of screen 0, in pixels.
DisplayW == 40

DisplayH == 30

\* Resolution of the floats self._x, self._y and self._sensitivity: they are
\* counted in units of 1 / SensUnit (of a pixel, of a pixel per raw count),
\* and a quotient is rounded toward zero to that resolution.
SensUnit == 400

\* `if raw_mag > 3.0`
NoiseFloor == 3

\* 0.85 and 0.15, as EmaKeep / EmaDen and EmaGain / EmaDen
EmaKeep == 17

EmaGain == 3

EmaDen == 20

\* 1 << 8, Button1Mask of the XQueryPointer mask; 0x100 of the GNOME modifiers
Button1Mask == 256

\* PS/2 packets <<flags, dx byte, dy byte>> read from /dev/input/mice:
\* (3, -4) counts, the Y sign bit set
PkRightDown == <<40, 3, 252>>

\* (-6, 8) counts, the X sign bit set, the left button down
PkLeftUpPressed == <<25, 250, 8>>

\* (0, 3) counts: a magnitude of exactly 3
PkNoise == <<8, 0, 3>>

\* no motion, the left button down
PkClick == <<9, 0, 0>>

\* XQueryPointer readings <<root_x, root_y, mask>>, inside the display
X11Near == <<3, 4, 0>>

X11Mid == <<6, 8, 0>>

X11MidPressed == <<6, 8, Button1Mask>>

X11Far == <<21, 28, 0>>

\* What one query of the hybrid backend reads: <<the packets pending on the
\* device, the XQueryPointer reading>>.
HybridInputs ==
  {<< <<>>, X11Near >>,
   << <<PkRightDown>>, X11Near >>,
   << <<PkLeftUpPressed>>, X11Near >>,
   << <<PkRightDown, PkRightDown>>, X11Mid >>,
   << <<PkNoise>>, X11MidPressed >>,
   << <<PkLeftUpPressed>>, X11Mid >>,
   << <<PkRightDown>>, X11Far >>,
   << <<PkClick, PkRightDown>>, X11Far >>}

\* The XQueryPointer reading the constructor seeds the filter with.
HybridSeeds == {X11Near, X11Far}

\* A constructor that leaves the last precise reading at the origin.
HybridSeedPositionOnly(r) ==
  [x |-> r[1] * SensUnit, y |-> r[2] * SensUnit,
   last_x11_x |-> 0, last_x11_y |-> 0,
   sensitivity |-> SensUnit,
   screen_w |-> DisplayW, screen_h |-> DisplayH]

\* _WaylandHybridCursor.__init__, from "X11 screen dimensions" on
HybridSeed(r) ==
  [x |-> r[1] * SensUnit, y |-> r[2] * SensUnit,
   last_x11_x |-> r[1], last_x11_y |-> r[2],
   sensitivity |-> SensUnit,
   screen_w |-> DisplayW, screen_h |-> DisplayH]

\* `if b & 0x10: dx -= 256`
PacketDx(pk) == IF (pk[1] \div 16) % 2 = 1 THEN pk[2] - 256 ELSE pk[2]

\* `if b & 0x20: dy -= 256`
PacketDy(pk) == IF (pk[1] \div 32) % 2 = 1 THEN pk[3] - 256 ELSE pk[3]

\* A loop that keeps the device's Y-up sign.
RECURSIVE ReadMiceFromYUp(_, _)
ReadMiceFromYUp(pkts, acc) ==
  IF pkts = <<>> THEN acc
  ELSE ReadMiceFromYUp(Tail(pkts),
                       [dx |-> acc.dx + PacketDx(Head(pkts)),
                        dy |-> acc.dy + PacketDy(Head(pkts)),
                        btn |-> Head(pkts)[1] % 2 = 1])

\* The loop of _read_mice over the pending packets; a read that raises
\* OSError or returns fewer than 3 bytes ends it.
RECURSIVE ReadMiceFrom(_, _)
ReadMiceFrom(pkts, acc) ==
  IF pkts = <<>> THEN acc
  ELSE ReadMiceFrom(Tail(pkts),
                    [dx |-> acc.dx + PacketDx(Head(pkts)),
                     dy |-> acc.dy - PacketDy(Head(pkts)),
                     btn |-> Head(pkts)[1] % 2 = 1])

\* _WaylandHybridCursor._read_mice
ReadMice(pkts) == ReadMiceFrom(pkts, [dx |-> 0, dy |-> 0, btn |-> FALSE])

\* bool(self._mask.value & (1 << 8)), bool(mods & 0x100)
ButtonBit(mask) == (mask \div Button1Mask) % 2 = 1

\* `if raw_mag > 3.0`, on the square of raw_mag
AboveNoiseFloorAtZero(raw_mag2) == raw_mag2 >= 0

AboveNoiseFloor(raw_mag2) == raw_mag2 > Sq(NoiseFloor)

\* actual_mag / raw_mag, from the squares of the magnitudes
NewRatio(actual_mag2, raw_mag2) ==
  ISqrt((actual_mag2 * Sq(SensUnit)) \div raw_mag2)

\* 0.85 * self._sensitivity + 0.15 * new_ratio
Ema(sensitivity, new_ratio) ==
  (EmaKeep * sensitivity + EmaGain * new_ratio) \div EmaDen

\* The position a fresh reading r gives: "use its value directly"
FreshPositionAddsRaw(h, r, raw) ==
  <<r[1] * SensUnit + raw.dx * h.sensitivity,
    r[2] * SensUnit + raw.dy * h.sensitivity>>

FreshPosition(h, r, raw) == <<r[1] * SensUnit, r[2] * SensUnit>>

\* A clamp that lets the position reach the bound itself.
ClampToBound(bound, v) == Max(0, Min(bound * SensUnit, v))

\* max(0.0, min(bound - 1, v))
ClampTo(bound, v) == Max(0, Min((bound - 1) * SensUnit, v))

\* The position a stale reading gives: "extrapolate from raw deltas"
StalePositionUnitSensitivity(h, raw) ==
  IF raw.dx # 0 \/ raw.dy # 0
    THEN <<ClampTo(h.screen_w, h.x + raw.dx * SensUnit),
           ClampTo(h.screen_h, h.y + raw.dy * SensUnit)>>
    ELSE <<h.x, h.y>>

StalePosition(h, raw) ==
  IF raw.dx # 0 \/ raw.dy # 0
    THEN <<ClampTo(h.screen_w, h.x + raw.dx * h.sensitivity),
           ClampTo(h.screen_h, h.y + raw.dy * h.sensitivity)>>
    ELSE <<h.x, h.y>>

\* `return self._x, self._y, x11_btn or mice_btn`
PressedX11Only(x11_btn, mice_btn) == x11_btn

Pressed(x11_btn, mice_btn) == x11_btn \/ mice_btn

\* x11_changed
X11Changed(h, r) == r[1] - h.last_x11_x # 0 \/ r[2] - h.last_x11_y # 0

\* _WaylandHybridCursor.query on the pending packets pkts and the reading r:
\* the object after it, what it returns, and whether it raises
\* (ZeroDivisionError at actual_mag / raw_mag).
HybridQuery(h, pkts, r) ==
  LET raw == ReadMice(pkts)
      x11_dx == r[1] - h.last_x11_x
      x11_dy == r[2] - h.last_x11_y
      raw_mag2 == Hypot2(raw.dx, raw.dy)
      fresh == [h EXCEPT !.x = FreshPosition(h, r, raw)[1],
                         !.y = FreshPosition(h, r, raw)[2],
                         !.last_x11_x = r[1], !.last_x11_y = r[2]]
      pressed == Pressed(ButtonBit(r[3]), raw.btn)
  IN IF X11Changed(h, r)
       THEN IF AboveNoiseFloor(raw_mag2)
              THEN IF raw_mag2 = 0
                     THEN [h |-> fresh, raised |-> TRUE, ret |-> <<0, 0, FALSE>>]
                     ELSE LET g == [fresh EXCEPT
                                      !.sensitivity =
                                         Ema(h.sensitivity,
                                             NewRatio(Hypot2(x11_dx, x11_dy),
                                                      raw_mag2))]
                          IN [h |-> g, raised |-> FALSE,
                              ret |-> <<g.x, g.y, pressed>>]
              ELSE [h |-> fresh, raised |-> FALSE,
                    ret |-> <<fresh.x, fresh.y, pressed>>]
       ELSE LET g == [h EXCEPT !.x = StalePosition(h, raw)[1],
                               !.y = StalePosition(h, raw)[2]]
            IN [h |-> g, raised |-> FALSE, ret |-> <<g.x, g.y, pressed>>]

\* What one round trip on the Hyprland socket gives: an exception raised by
\* connect, sendall or recv, or the parts of the response split at ",", each
\* <<float() accepts it, its value>>.
HyprReplies ==
  {[exc |-> "none", parts |-> << <<TRUE, 812>>, <<TRUE, 440>> >>],
   [exc |-> "none", parts |-> << <<TRUE, 3>>, <<TRUE, 4>> >>],
   [exc |-> "ConnectionRefusedError", parts |-> <<>>],
   [exc |-> "TimeoutError", parts |-> <<>>],
   [exc |-> "none", parts |-> << <<FALSE, 0>> >>],
   [exc |-> "none", parts |-> << <<TRUE, 812>>, <<FALSE, 0>> >>]}

\* _HyprlandCursor._get_pos
HyprGetPos(reply) ==
  IF reply.exc # "none" THEN [exc |-> reply.exc, pos |-> <<0, 0>>]
  ELSE IF Len(reply.parts) # 2 THEN [exc |-> "ValueError", pos |-> <<0, 0>>]
  ELSE IF ~reply.parts[1][1] \/ ~reply.parts[2][1]
    THEN [exc |-> "ValueError", pos |-> <<0, 0>>]
  ELSE [exc |-> "none", pos |-> <<reply.parts[1][2], reply.parts[2][2]>>]

\* `except Exception:` in the query methods
QueryCatchesOSError(exc) == exc \in {"ConnectionRefusedError", "TimeoutError"}

QueryCatches(exc) ==
  exc \in {"ConnectionRefusedError", "TimeoutError", "ValueError",
           "RuntimeError", "GLibError", "TimeoutExpired",
           "JSONDecodeError"}

\* What a query method returns around the call of its helper.
Guarded(got, pressed) ==
  IF got.exc = "none"
    THEN [raised |-> FALSE, ret |-> <<got.pos[1], got.pos[2], pressed>>]
  ELSE IF QueryCatches(got.exc)
    THEN [raised |-> FALSE, ret |-> <<0, 0, FALSE>>]
  ELSE [raised |-> TRUE, ret |-> <<0, 0, FALSE>>]

\* _HyprlandCursor.query
HyprlandQuery(reply) == Guarded(HyprGetPos(reply), FALSE)

\* What one Eval call on the session bus gives: an exception raised by the
\* call (call_sync, or subprocess.run with its timeout), whether the call
\* succeeded (`success` of the reply, or returncode 0), whether the value
\* parses, and the [x, y, modifiers] it holds.
GnomeReplies ==
  {[exc |-> "none", success |-> TRUE, parses |-> TRUE, data |-> <<812, 440, 0>>],
   [exc |-> "none", success |-> TRUE, parses |-> TRUE,
    data |-> <<3, 4, Button1Mask>>],
   [exc |-> "timeout", success |-> FALSE, parses |-> FALSE, data |-> <<0, 0, 0>>],
   [exc |-> "none", success |-> FALSE, parses |-> FALSE, data |-> <<0, 0, 0>>],
   [exc |-> "none", success |-> TRUE, parses |-> FALSE, data |-> <<0, 0, 0>>]}

\* _GnomeCursor._query_gi
GnomeQueryGi(reply) ==
  IF reply.exc # "none" THEN [exc |-> "GLibError", pos |-> <<0, 0>>, btn |-> FALSE]
  ELSE IF ~reply.success
    THEN [exc |-> "RuntimeError", pos |-> <<0, 0>>, btn |-> FALSE]
  ELSE IF ~reply.parses
    THEN [exc |-> "JSONDecodeError", pos |-> <<0, 0>>, btn |-> FALSE]
  ELSE [exc |-> "none", pos |-> <<reply.data[1], reply.data[2]>>,
        btn |-> ButtonBit(reply.data[3])]

\* _GnomeCursor._query_subprocess
GnomeQuerySubprocess(reply) ==
  IF reply.exc # "none"
    THEN [exc |-> "TimeoutExpired", pos |-> <<0, 0>>, btn |-> FALSE]
  ELSE IF ~reply.success \/ ~reply.parses
    THEN [exc |-> "RuntimeError", pos |-> <<0, 0>>, btn |-> FALSE]
  ELSE [exc |-> "none", pos |-> <<reply.data[1], reply.data[2]>>,
        btn |-> ButtonBit(reply.data[3])]

\* _GnomeCursor.query
GnomeQuery(use_gi, reply) ==
  LET got == IF use_gi THEN GnomeQueryGi(reply) ELSE GnomeQuerySubprocess(reply)
  IN Guarded(got, got.btn)

\* No query made yet.
NoQuery ==
  [kind |-> "none", pkts |-> <<>>, reading |-> <<0, 0, 0>>,
   before |-> HybridSeed(<<0, 0, 0>>), failed |-> FALSE, real |-> <<0, 0, FALSE>>,
   prev_failed |-> FALSE, raised |-> FALSE, ret |-> <<0, 0, FALSE>>]

\* The stale run from the seed at position <<sx, sy>>.
RunFrom(sx, sy) ==
  [seed_x |-> sx, seed_y |-> sy, cum_x |-> 0, cum_y |-> 0,
   stale_only |-> TRUE, clamped |-> FALSE]

\* One query of the hybrid backend.
HybridQueryStep ==
  /\ q_backend = "hybrid"
  /\ queries < MaxQueries
  /\ \E i \in HybridInputs :
       LET res == HybridQuery(hybrid, i[1], i[2])
           raw == ReadMice(i[1])
           stale == ~X11Changed(hybrid, i[2])
           ux == hybrid.x + raw.dx * hybrid.sensitivity
           uy == hybrid.y + raw.dy * hybrid.sensitivity
       IN /\ hybrid' = res.h
          /\ q_last' = [kind |-> "hybrid", pkts |-> i[1], reading |-> i[2],
                        before |-> hybrid, failed |-> FALSE,
                        real |-> <<0, 0, FALSE>>,
                        prev_failed |-> FALSE, raised |-> res.raised,
                        ret |-> res.ret]
          /\ q_run' = IF stale
                        THEN [q_run EXCEPT
                                !.cum_x = @ + raw.dx * hybrid.sensitivity,
                                !.cum_y = @ + raw.dy * hybrid.sensitivity,
                                !.clamped = @ \/ ClampTo(hybrid.screen_w, ux) # ux
                                              \/ ClampTo(hybrid.screen_h, uy) # uy]
                        ELSE [q_run EXCEPT !.stale_only = FALSE]
  /\ queries' = queries + 1
  /\ UNCHANGED <<q_backend, q_use_gi>>
  /\ UNCHANGED <<selVars, petVars, appVars, idle_pick, loopVars, stepVars, devVars>>

\* One query of the Hyprland backend.
HyprlandQueryStep ==
  /\ q_backend = "hyprland"
  /\ queries < MaxQueries
  /\ \E reply \in HyprReplies :
       LET res == HyprlandQuery(reply)
           got == HyprGetPos(reply)
       IN q_last' = [kind |-> "hyprland", pkts |-> <<>>, reading |-> <<0, 0, 0>>,
                     before |-> hybrid, failed |-> got.exc # "none",
                     real |-> <<got.pos[1], got.pos[2], FALSE>>,
                     prev_failed |-> q_last.failed, raised |-> res.raised,
                     ret |-> res.ret]
  /\ queries' = queries + 1
  /\ UNCHANGED <<q_backend, q_use_gi, hybrid, q_run>>
  /\ UNCHANGED <<selVars, petVars, appVars, idle_pick, loopVars, stepVars, devVars>>

\* One query of the GNOME backend.
GnomeQueryStep ==
  /\ q_backend = "gnome"
  /\ queries < MaxQueries
  /\ \E reply \in GnomeReplies :
       LET res == GnomeQuery(q_use_gi, reply)
           got == IF q_use_gi THEN GnomeQueryGi(reply)
                  ELSE GnomeQuerySubprocess(reply)
       IN q_last' = [kind |-> "gnome", pkts |-> <<>>, reading |-> <<0, 0, 0>>,
                     before |-> hybrid, failed |-> got.exc # "none",
                     real |-> <<got.pos[1], got.pos[2], got.btn>>,
                     prev_failed |-> q_last.failed, raised |-> res.raised,
                     ret |-> res.ret]
  /\ queries' = queries + 1
  /\ UNCHANGED <<q_backend, q_use_gi, hybrid, q_run>>
  /\ UNCHANGED <<selVars, petVars, appVars, idle_pick, loopVars, stepVars, devVars>>

(***************************************************************************)
(* Initial states and specifications                                        *)
(***************************************************************************)

\* Before create_cursor_tracker is called.
SelInitial ==
  /\ sel_pc = "start"
  /\ attempted = <<>>
  /\ outcome = [c \in Candidates |-> "untried"]
  /\ held = [c \in Candidates |-> {}]
  /\ closed_by_sel = {}
  /\ selected = "none"
  /\ sel_raised = FALSE

\* After create_cursor_tracker returned on a platform that is neither win32
\* nor linux: the toolkit fallback.
SelDoneQt ==
  /\ platform = "other" /\ is_wayland = FALSE /\ hypr_sig = FALSE
  /\ desktop = {}
  /\ sel_pc = "done"
  /\ attempted = <<"qt">>
  /\ outcome = [c \in Candidates |-> IF c = "qt" THEN "ok" ELSE "untried"]
  /\ held = [c \in Candidates |-> {}]
  /\ closed_by_sel = {}
  /\ selected = "qt"
  /\ sel_raised = FALSE

\* AemeathApp.__init__: the pet at the centre of the screen, the seal hidden.
AppInitial ==
  /\ PetIs(PetInit(StartX * PX, StartY * PX))
  /\ now_ms = 0 /\ ticks = 0
  /\ seal_visible = FALSE /\ seal_widget_x = 0 /\ seal_widget_y = 0
  /\ tick_state0 = CHASING /\ tick_entry = CHASING /\ tick_dist2 = 0
  /\ tick_moved = FALSE /\ tick_seal0 = FALSE
  /\ spawn_count = 0 /\ despawn_count = 0 /\ drag_from = "none"
  /\ idle_pick = <<-1, 1, 0>>

\* No backend is being queried.
QueryQuiet ==
  /\ q_backend = "none" /\ q_use_gi = FALSE
  /\ hybrid = HybridSeed(<<0, 0, 0>>)
  /\ queries = 0
  /\ q_last = NoQuery
  /\ q_run = RunFrom(0, 0)

\* AemeathApp as in Spec: constructed around the toolkit fallback, its event
\* loop running, no _tick traced statement by statement.
LoopQuiet ==
  /\ app_pc = "exec" /\ step = 1
  /\ cursor = [kind |-> "qt", held |-> {}, closed |-> FALSE,
               close_fate |-> "none", dpr |-> 1, pumped |-> 0]
  /\ timer_active = TRUE /\ tray_visible = TRUE
  /\ pump_left = 0 /\ loop_ticks = 0
  /\ sample = <<0, 0, FALSE>>
  /\ tick_log = <<>>
  /\ rendered = <<StartX, StartY, GIF_MOVE, FALSE>>
  /\ reentered = FALSE /\ late_query = FALSE /\ quit_raised = FALSE

\* No single step of the Pet has been taken.
NoMove ==
  [dx |-> 0, dy |-> 0, dist2 |-> 0, speed |-> 0, x0 |-> 0, y0 |-> 0,
   x1 |-> 0, y1 |-> 0, raised |-> FALSE]

\* A run of still samples that begins with the Pet p.
StillFrom(p) ==
  [n |-> 0, x |-> p.last_mouse_x, y |-> p.last_mouse_y,
   since |-> p.mouse_idle_start_ms, seal |-> p.seal_active]

StepQuiet ==
  /\ step_pet0 = PetInit(StartX * PX, StartY * PX)
  /\ step_sample = <<StartX * PX, StartY * PX, FALSE, 0>>
  /\ steps = 0
  /\ mv = NoMove
  /\ moves = 0
  /\ still = StillFrom(PetInit(StartX * PX, StartY * PX))

\* No _read_mice call has been made and nothing is pending on the device.
NoDrain ==
  [dev |-> <<>>, ret |-> [dx |-> 0, dy |-> 0, btn |-> FALSE], rest |-> <<>>,
   reads |-> 0, blocked |-> FALSE]

DevQuiet ==
  /\ mice_dev = <<>>
  /\ mice_last = NoDrain
  /\ mice_arrived = <<>>
  /\ mice_counted = <<>>
  /\ mice_dropped = 0
  /\ drains = 0

AuxInitial == QueryQuiet /\ LoopQuiet /\ StepQuiet /\ DevQuiet

\* The tick loop around the Pet, with the toolkit fallback as the backend.
Init == SelDoneQt /\ AppInitial /\ AuxInitial

Next == \E s \in Samples : Tick(s[1][1], s[1][2], s[2], s[3])

Spec == Init /\ [][Next]_vars

\* Backend selection, for every combination of the environment signals.
InitSel ==
  /\ platform \in {"win32", "linux", "other"}
  /\ is_wayland \in BOOLEAN
  /\ hypr_sig \in BOOLEAN
  /\ desktop \in SUBSET {"GNOME", "KDE"}
  /\ SelInitial
  /\ AppInitial
  /\ AuxInitial

NextSel ==
  \/ SelDispatch
  \/ TryWin32
  \/ TryHyprland
  \/ TryGnome
  \/ TryKDE
  \/ TryHybrid
  \/ TryX11
  \/ ReturnQt

SpecSel == InitSel /\ [][NextSel]_vars

\* The idle ramp: the mouse-idle time grows and _pick_idle_gif is called.
InitIdleRamp == SelDoneQt /\ AppInitial /\ AuxInitial

NextIdle == IdleAdvance \/ IdlePick

SpecIdle == InitIdleRamp /\ [][NextIdle]_vars

\* Successive queries of one constructed backend: the hybrid backend seeded
\* with an XQueryPointer reading, or one of the IPC backends.
InitQuery ==
  /\ SelDoneQt
  /\ AppInitial
  /\ q_backend \in {"hybrid", "hyprland", "gnome"}
  /\ q_use_gi \in (IF q_backend = "gnome" THEN BOOLEAN ELSE {FALSE})
  /\ hybrid \in (IF q_backend = "hybrid"
                   THEN {HybridSeed(r) : r \in HybridSeeds}
                   ELSE {HybridSeed(<<0, 0, 0>>)})
  /\ queries = 0
  /\ q_last = NoQuery
  /\ q_run = RunFrom(hybrid.x, hybrid.y)
  /\ LoopQuiet
  /\ StepQuiet
  /\ DevQuiet

NextQuery == HybridQueryStep \/ HyprlandQueryStep \/ GnomeQueryStep

SpecQuery == InitQuery /\ [][NextQuery]_vars

(***************************************************************************)
(* Properties of backend selection (SpecSel)                                *)
(***************************************************************************)

Specialised == Candidates \ {"qt"}

\* C1: create_cursor_tracker never raises and always returns exactly one
\* backend: no exception leaves it, before the return it can always take
\* another step, at the return exactly one candidate was constructed
\* successfully and it is the one returned, and when every specialised backend
\* failed (or none matched) the toolkit fallback is returned.
C1_AlwaysReturnsOneBackend ==
  /\ ~sel_raised
  /\ sel_pc # "raised"
  /\ sel_pc # "done" => (selected = "none" /\ ENABLED NextSel)
  /\ sel_pc = "done" =>
       /\ selected \in Candidates
       /\ {c \in Candidates : outcome[c] = "ok"} = {selected}
       /\ (\A c \in Specialised : outcome[c] # "ok") => selected = "qt"

\* C1 witness: every specialised Linux backend was tried and failed, and the
\* toolkit fallback was returned.
C1_Witness ==
  /\ sel_pc = "done"
  /\ selected = "qt"
  /\ \A c \in {"hyprland", "gnome", "kde", "hybrid", "x11"} : outcome[c] = "failed"

\* The order of §4.1, with the Windows backend in front of it.
ClaimedOrder == <<"win32", "hyprland", "gnome", "kde", "hybrid", "x11", "qt">>

\* The candidates matching the detected environment.
Matches(c) ==
  CASE c = "win32" -> platform = "win32"
    [] c = "hyprland" -> platform = "linux" /\ is_wayland /\ hypr_sig
    [] c = "gnome" -> platform = "linux" /\ is_wayland /\ "GNOME" \in desktop
    [] c = "kde" -> platform = "linux" /\ is_wayland /\ "KDE" \in desktop
    [] c = "hybrid" -> platform = "linux" /\ is_wayland
    [] c = "x11" -> platform = "linux"
    [] c = "qt" -> TRUE

MatchingChain == SelectSeq(ClaimedOrder, Matches)

\* C2: the constructors called so far are a prefix of the matching candidates
\* in the fixed order; all but the last called have failed; the last called
\* has failed too unless selection has returned, and then it succeeded and is
\* the backend returned.
C2_OrderedFallback ==
  /\ Len(attempted) <= Len(MatchingChain)
  /\ attempted = SubSeq(MatchingChain, 1, Len(attempted))
  /\ \A i \in 1..Len(attempted) :
       outcome[attempted[i]] =
         IF i = Len(attempted) /\ sel_pc = "done" THEN "ok" ELSE "failed"
  /\ \A c \in Candidates :
       outcome[c] = "untried" <=> (\A i \in 1..Len(attempted) : attempted[i] # c)
  /\ sel_pc = "done" => selected = attempted[Len(attempted)]

\* C2 witness: on a Wayland session with all three compositor signals, the
\* three compositor backends failed in order and the hybrid was returned.
C2_Witness ==
  /\ sel_pc = "done"
  /\ attempted = <<"hyprland", "gnome", "kde", "hybrid">>
  /\ selected = "hybrid"

\* C3: no discarded candidate holds an OS resource: whenever a candidate has
\* failed, close() has released whatever its constructor had acquired.
C3_DiscardedHoldNothing ==
  \A c \in Candidates : outcome[c] = "failed" => held[c] = {}

(***************************************************************************)
(* Properties of the behaviour state machine (Spec)                         *)
(***************************************************************************)

\* The tick just run began in state s0 and ended in state s1.
Went(s0, s1) == ticks > 0 /\ tick_state0 = s0 /\ state = s1

InBand(dist2) ==
  /\ dist2 >= Sq(NEAR_DISTANCE * PX)
  /\ dist2 <= Sq(FAR_DISTANCE * PX)

\* C4: hysteresis.  A tick goes from CHASING to WANDERING only with a target
\* distance below NEAR_DISTANCE, and from WANDERING to CHASING only with one
\* above FAR_DISTANCE; with the distance in [NEAR_DISTANCE, FAR_DISTANCE]
\* neither happens.
C4_Hysteresis ==
  /\ Went(CHASING, WANDERING) => tick_dist2 < Sq(NEAR_DISTANCE * PX)
  /\ Went(WANDERING, CHASING) => tick_dist2 > Sq(FAR_DISTANCE * PX)
  /\ InBand(tick_dist2) => ~Went(CHASING, WANDERING) /\ ~Went(WANDERING, CHASING)

\* C4 witness: a tick in WANDERING with the target 200 px away, inside the
\* band, that stays in WANDERING.
C4_Witness ==
  /\ Went(WANDERING, WANDERING)
  /\ InBand(tick_dist2)
  /\ tick_dist2 = Sq(200 * PX)

\* C5: a tick fed a pressed button ends in DRAGGING, whatever came before.
C5_DragPriority == (ticks > 0 /\ mouse_pressed) => state = DRAGGING

\* C5 witness: the button is pressed in SEAL_MODE, with the seal active.
C5_Witness ==
  /\ Went(SEAL_MODE, DRAGGING)
  /\ mouse_pressed
  /\ seal_active

\* The tick just run observed the release that ends a drag.
ReleaseTick == ticks > 0 /\ tick_state0 = DRAGGING /\ ~mouse_pressed

\* C6 as stated: the release tick ends in the state held before the drag.
C6_ReleaseEndsInPriorState == ReleaseTick => state = drag_from

\* The exit of state s taken by its handler on the tick just run.
ExitTaken(s) ==
  CASE s = CHASING -> state = WANDERING /\ Near(tick_dist2)
    [] s = WANDERING ->
         \/ state = CHASING /\ Far(tick_dist2) /\ ~seal_active
         \/ state = IDLING /\ now_ms > wander_end_time
    [] s = IDLING ->
         \/ state = CHASING /\ Far(tick_dist2)
         \/ /\ state = WANDERING
            /\ Hypot2(mouse_x - idle_anchor_mouse_x, mouse_y - idle_anchor_mouse_y)
                 > Sq(MOUSE_MOVE_THRESHOLD * PX * 10)
         \/ state = SEAL_MODE /\ seal_should_appear
    [] s = SEAL_MODE -> state = CHASING /\ ~seal_active
    [] OTHER -> FALSE

\* C6 amended: on the release tick the state is restored to exactly the state
\* held before the drag, and that state's handler runs on it in the same
\* tick; the tick ends in that state unless the handler takes one of its
\* exits.
C6_RestoredThenHandled ==
  ReleaseTick =>
    /\ drag_from \in PetState \ {DRAGGING}
    /\ tick_entry = drag_from
    /\ state # DRAGGING
    /\ state # drag_from => ExitTaken(drag_from)

\* C6 witness: pressed while WANDERING, released, and WANDERING again.
C6_Witness == ReleaseTick /\ drag_from = WANDERING /\ state = WANDERING

\* C7: a tick that begins in IDLING with no seal, the button released and the
\* pointer resting on the idle anchor, and whose mouse-idle time exceeds
\* MOUSE_IDLE_T2, raises seal_should_appear and ends in SEAL_MODE; the signal
\* is raised only on a tick that began without a seal, once per seal.
C7_SealSpawnOnce ==
  /\ ( /\ Went(IDLING, state)
       /\ ~tick_seal0 /\ ~mouse_pressed /\ ~tick_moved
       /\ mouse_x = idle_anchor_mouse_x /\ mouse_y = idle_anchor_mouse_y
       /\ mouse_idle_time > MOUSE_IDLE_T2 )
     => (seal_should_appear /\ seal_active /\ state = SEAL_MODE)
  /\ seal_should_appear => (~tick_seal0 /\ tick_entry = IDLING)
  /\ seal_active => spawn_count = 1

\* C7 witness: the tick after the spawn, the seal still active and the signal
\* not raised again.
C7_Witness ==
  /\ Went(SEAL_MODE, SEAL_MODE)
  /\ tick_seal0 /\ seal_active
  /\ ~seal_should_appear
  /\ spawn_count = 1

\* C8: a tick that begins in SEAL_MODE with the seal active, is fed a
\* released button and a pointer displacement above MOUSE_MOVE_THRESHOLD,
\* raises seal_should_disappear, clears the seal and ends in CHASING; the
\* signal is raised only on a tick that began with a seal, once per seal.
C8_SealDespawnOnce ==
  /\ (Went(SEAL_MODE, state) /\ tick_seal0 /\ ~mouse_pressed /\ tick_moved)
     => (seal_should_disappear /\ ~seal_active /\ state = CHASING)
  /\ seal_should_disappear => (tick_seal0 /\ tick_moved /\ ~seal_active)
  /\ despawn_count <= 1
  /\ despawn_count = 1 => ~seal_active

\* C8 witness: the seal was dismissed on the tick just run.
C8_Witness ==
  /\ Went(SEAL_MODE, CHASING)
  /\ seal_should_disappear
  /\ ~seal_visible

(***************************************************************************)
(* Properties of the idle ramp (SpecIdle)                                   *)
(***************************************************************************)

\* Of the RandGrid equally likely random.random() draws and the NIdle equally
\* likely random.choice picks, the number on which _pick_idle_gif returns gif.
Picks(gif, idle_time) ==
  Cardinality({d \in (1..NIdle) \X (0..(RandGrid - 1)) :
                 PickIdleGif(idle_time, d[1], d[2]) = gif})

AllDraws == NIdle * RandGrid

\* C9 as stated: the special variant has probability 0.5 at 60000 ms and 1.0
\* at 90000 ms.
C9_HalfAt60000 ==
  /\ mouse_idle_time = 60000 => 2 * Picks(GIF_IDLE2, mouse_idle_time) = AllDraws
  /\ mouse_idle_time = 90000 => Picks(GIF_IDLE2, mouse_idle_time) = AllDraws

\* C9 amended: the special variant has probability 0.6 at 60000 ms and 1.0 at
\* 90000 ms.
C9_SixTenthsAt60000 ==
  /\ mouse_idle_time = 60000 =>
       10 * Picks(GIF_IDLE2, mouse_idle_time) = 6 * AllDraws
  /\ mouse_idle_time = 90000 => Picks(GIF_IDLE2, mouse_idle_time) = AllDraws

\* C9 witness: at 60000 ms a draw of 0.65, above 0.5 and below the special
\* variant's upper cumulative bound 0.7, picked the special variant.
C9_Witness ==
  /\ mouse_idle_time = 60000
  /\ idle_pick[1] = 60000
  /\ 20 * idle_pick[3] = 13 * RandGrid
  /\ current_gif = GIF_IDLE2

\* ramp * IDLE2_RAMP_DURATION, as the specification gives it
ClaimedRamp(t) == Min(t - MOUSE_IDLE_T1, IDLE2_RAMP_DURATION)

\* The gif the claimed distribution gives for the draw r / RandGrid at
\* mouse-idle time t >= MOUSE_IDLE_T1: the special variant has probability
\* 1/n + ramp * (1 - 1/n), the others share the rest, and the draw is taken
\* against the cumulative distribution in the order of GIF_IDLE.  All
\* probabilities are numerators over n * (n - 1) * IDLE2_RAMP_DURATION.
ClaimedSpecial(t) ==
  (NIdle - 1) * (IDLE2_RAMP_DURATION + ClaimedRamp(t) * (NIdle - 1))

ClaimedOther(t) == (NIdle - 1) * (IDLE2_RAMP_DURATION - ClaimedRamp(t))

ClaimedCumulative(i, t) ==
  Cardinality({j \in 1..i : GIF_IDLE[j] # GIF_IDLE2}) * ClaimedOther(t)
    + (IF \E j \in 1..i : GIF_IDLE[j] = GIF_IDLE2 THEN ClaimedSpecial(t) ELSE 0)

ClaimedPick(t, c, r) ==
  IF t < MOUSE_IDLE_T1 THEN GIF_IDLE[c]
  ELSE GIF_IDLE[CHOOSE i \in 1..NIdle :
         /\ r * NIdle * (NIdle - 1) * IDLE2_RAMP_DURATION
              < RandGrid * ClaimedCumulative(i, t)
         /\ \A j \in 1..(i - 1) :
              r * NIdle * (NIdle - 1) * IDLE2_RAMP_DURATION
                >= RandGrid * ClaimedCumulative(j, t)]

\* C10: at every mouse-idle time the distribution sums to 1; before
\* MOUSE_IDLE_T1 every variant has probability 1/n; from MOUSE_IDLE_T1 on the
\* special variant has 1/n + ramp * (1 - 1/n), which does not decrease with
\* the idle time and is 1 once ramp = 1, and every other variant an equal
\* share of the rest; and each call returns what its single draw gives
\* against the cumulative distribution.
C10_RampDistribution ==
  LET t == mouse_idle_time
      special == Picks(GIF_IDLE2, t)
  IN /\ \A i \in 1..NIdle : Picks(GIF_IDLE[i], t) \in 0..AllDraws
     /\ \A c \in 1..NIdle, r \in 0..(RandGrid - 1) :
          \E i \in 1..NIdle : PickIdleGif(t, c, r) = GIF_IDLE[i]
     /\ t < MOUSE_IDLE_T1 =>
          \A i \in 1..NIdle : NIdle * Picks(GIF_IDLE[i], t) = AllDraws
     /\ t >= MOUSE_IDLE_T1 =>
          /\ Cumulative(NIdle, t) = ProbDen
          /\ special * NIdle * IDLE2_RAMP_DURATION
               = AllDraws * (IDLE2_RAMP_DURATION + ClaimedRamp(t) * (NIdle - 1))
          /\ \A i \in 1..NIdle :
               GIF_IDLE[i] # GIF_IDLE2 =>
                 (NIdle - 1) * Picks(GIF_IDLE[i], t) = AllDraws - special
     /\ t >= MOUSE_IDLE_T1 + IDLE2_RAMP_DURATION => special = AllDraws
     /\ special <= Picks(GIF_IDLE2, t + IdleStep)
     /\ idle_pick[1] >= 0 =>
          current_gif = ClaimedPick(idle_pick[1], idle_pick[2], idle_pick[3])

\* C10 witness: half-way up the ramp a draw of 0.05, below the first
\* variant's share 0.1, picked the first variant, not the special one.
C10_Witness ==
  /\ idle_pick[1] = MOUSE_IDLE_T1 + IDLE2_RAMP_DURATION \div 2
  /\ 20 * idle_pick[3] = RandGrid
  /\ current_gif = GIF_IDLE[1]

(***************************************************************************)
(* Determinism of the state machine (Spec)                                  *)
(***************************************************************************)

\* The draws a Pet has last consumed, as its fields keep them: each
\* random.randint result is added to now_ms into a timer field, and the other
\* draws of the same call come in the same tuple of the draw sets.
DrawsOf(q) ==
  <<q.wander_end_time, q.wander_dir_change_time, q.idle_end_time,
    q.seal_wander_dir_time>>

\* The Pet objects update_mouse followed by tick can produce from the current
\* one on the sample s.
Advance(s) ==
  PetTick(UpdateMouse(PetNow, s[1][1] * PX, s[1][2] * PX, s[2], now_ms + s[3]),
          now_ms + s[3])

LastHybrid == q_last.kind = "hybrid"

\* The precise reading of the last query differs from the previous one.
LastFresh == LastHybrid /\ X11Changed(q_last.before, q_last.reading)

LastStale == LastHybrid /\ ~X11Changed(q_last.before, q_last.reading)

\* The raw deltas drained by the last query.
LastRaw == ReadMice(q_last.pkts)

\* C12: fresh case.  On a query whose precise reading differs from the
\* previous precise reading, the position returned and kept is the precise
\* reading exactly, whatever the raw deltas drained and the position fused
\* before, and the previous precise reading becomes that reading.
C12_FreshUsesReading ==
  LastFresh =>
    /\ q_last.ret[1] = q_last.reading[1] * SensUnit
    /\ q_last.ret[2] = q_last.reading[2] * SensUnit
    /\ hybrid.x = q_last.ret[1] /\ hybrid.y = q_last.ret[2]
    /\ hybrid.last_x11_x = q_last.reading[1]
    /\ hybrid.last_x11_y = q_last.reading[2]

\* C12 witness: a fresh query that drained non-zero raw deltas, after the
\* fused position had moved away from the previous precise reading.
C12_Witness ==
  /\ LastFresh
  /\ LastRaw.dx # 0 /\ LastRaw.dy # 0
  /\ q_last.before.x # q_last.before.last_x11_x * SensUnit
  /\ q_last.ret[1] = q_last.reading[1] * SensUnit

\* One stale query: the previous position plus raw_delta * sensitivity,
\* clamped to the display, and the sensitivity unchanged.
StaleStep ==
  LastStale =>
    /\ hybrid.x = ClampTo(DisplayW, q_last.before.x
                                      + LastRaw.dx * q_last.before.sensitivity)
    /\ hybrid.y = ClampTo(DisplayH, q_last.before.y
                                      + LastRaw.dy * q_last.before.sensitivity)
    /\ q_last.ret[1] = hybrid.x /\ q_last.ret[2] = hybrid.y
    /\ hybrid.sensitivity = q_last.before.sensitivity
    /\ hybrid.last_x11_x = q_last.before.last_x11_x
    /\ hybrid.last_x11_y = q_last.before.last_x11_y

\* Every query so far was stale.
StaleRun == q_backend = "hybrid" /\ queries > 0 /\ q_run.stale_only

\* C13 as stated: a stale query advances the position by raw_delta *
\* sensitivity and clamps it, so that after a run of stale queries from the
\* seed the position is the seed plus the accumulated raw_delta * sensitivity,
\* clamped.
C13_StaleClosedForm ==
  /\ StaleStep
  /\ StaleRun =>
       /\ hybrid.x = ClampTo(DisplayW, q_run.seed_x + q_run.cum_x)
       /\ hybrid.y = ClampTo(DisplayH, q_run.seed_y + q_run.cum_y)

\* C13 amended: a stale query advances the position by raw_delta *
\* sensitivity and clamps it to the display, leaving the sensitivity
\* unchanged; the position is the seed plus the accumulated raw_delta *
\* sensitivity as long as no query of the run has been clamped.
C13_StaleStepwise ==
  /\ StaleStep
  /\ (StaleRun /\ ~q_run.clamped) =>
       /\ hybrid.x = q_run.seed_x + q_run.cum_x
       /\ hybrid.y = q_run.seed_y + q_run.cum_y

\* C13 witness: a run of stale queries one of which was clamped, after which
\* the position is no longer the clamped sum.
C13_Witness ==
  /\ StaleRun /\ LastStale
  /\ q_run.clamped
  /\ hybrid.x # ClampTo(DisplayW, q_run.seed_x + q_run.cum_x)

\* C14: sensitivity re-estimation.  A query re-estimates the sensitivity if
\* and only if its reading is fresh and the raw magnitude exceeds the noise
\* floor 3.0, and then to 0.85 * old + 0.15 * (|precise delta| / |raw delta|);
\* every other query leaves it unchanged, and no query raises on a zero raw
\* magnitude.
C14_SensitivityReestimated ==
  LastHybrid =>
    LET old == q_last.before.sensitivity
        raw2 == Sq(LastRaw.dx) + Sq(LastRaw.dy)
        precise2 == Sq(q_last.reading[1] - q_last.before.last_x11_x)
                      + Sq(q_last.reading[2] - q_last.before.last_x11_y)
    IN /\ ~q_last.raised
       /\ IF LastFresh /\ raw2 > 9
            THEN \E ratio \in {NewRatio(precise2, raw2)} :
                   /\ Sq(ratio) * raw2 <= precise2 * Sq(SensUnit)
                   /\ Sq(ratio + 1) * raw2 > precise2 * Sq(SensUnit)
                   /\ 20 * hybrid.sensitivity <= 17 * old + 3 * ratio
                   /\ 20 * hybrid.sensitivity + 20 > 17 * old + 3 * ratio
            ELSE hybrid.sensitivity = old

\* C14 witness: a second re-estimation, from a sensitivity that is no longer
\* the initial 1.0.
C14_Witness ==
  /\ LastFresh
  /\ q_last.before.sensitivity # SensUnit
  /\ hybrid.sensitivity # q_last.before.sensitivity

\* C15: the pressed flag returned is the OR of the primary-button bit of the
\* precise reading and the button flag of the raw-device drain (the left
\* button bit of the last packet drained, false when none was pending).
C15_PressedIsOr ==
  LastHybrid =>
    LET n == Len(q_last.pkts)
        x11_bit == (q_last.reading[3] \div 256) % 2 = 1
        mice_bit == n > 0 /\ q_last.pkts[n][1] % 2 = 1
    IN q_last.ret[3] = (x11_bit \/ mice_bit)

\* C15 witness: only the raw device reports the button down.
C15_Witness ==
  /\ LastHybrid
  /\ q_last.reading[3] = 0
  /\ LastRaw.btn
  /\ q_last.ret[3]

\* C18: a query of the socket or bus backend whose round trip fails or times
\* out does not raise; it returns (0, 0, False); and a query whose round trip
\* succeeds returns the real position, also after failed ones.
C18_QueryFailureIsSoft ==
  q_last.kind \in {"hyprland", "gnome"} =>
    /\ ~q_last.raised
    /\ q_last.failed => q_last.ret = <<0, 0, FALSE>>
    /\ ~q_last.failed => q_last.ret = q_last.real

\* C18 witness: the round trip after a failed one succeeds and its position
\* is returned.
C18_Witness ==
  /\ q_last.kind = "hyprland"
  /\ q_last.prev_failed /\ ~q_last.failed
  /\ q_last.ret = <<812, 440, FALSE>>

(***************************************************************************)
(* The life of AemeathApp (app.py): __init__, _tick, _quit                  *)
(***************************************************************************)

\* Number of _tick calls followed statement by statement.
MaxLoopTicks == 3

\* Number of QApplication.processEvents() calls of one _KDECursor.__init__.
MaxPumps == 2

\* The statements of AemeathApp.__init__ that the loop depends on, in order.
AppInitStepsTimerFirst == <<"pet", "timer", "cursor", "tray">>

AppInitSteps == <<"pet", "cursor", "tray", "timer">>

\* The statements of AemeathApp._tick, in order.
TickStepsSealEventsFirst ==
  <<"reset", "query", "dpr_scale", "update_mouse", "seal_events", "tick",
    "seal_position", "clamp", "move_sprite", "animation">>

TickSteps ==
  <<"reset", "query", "dpr_scale", "update_mouse", "tick", "seal_events",
    "seal_position", "clamp", "move_sprite", "animation">>

\* The statements of AemeathApp._quit, in order.
QuitSteps == <<"timer_stop", "tray_hide", "cursor_close", "app_quit">>

\* The backends create_cursor_tracker is followed with here: the one whose
\* constructor pumps events, the two that own OS handles, and the fallback.
LoopBackends == {"kde", "hybrid", "x11", "qt"}

\* needs_dpr_scaling
NeedsDprScaling(kind) == kind \in {"hybrid", "x11"}

\* QScreen.devicePixelRatio()
DevicePixelRatios == {1, 2}

NoCursor ==
  [kind |-> "none", held |-> {}, closed |-> FALSE, close_fate |-> "none",
   dpr |-> 1, pumped |-> 0]

\* The backend create_cursor_tracker returns, as constructed.
Constructed(kind, dpr) ==
  [kind |-> kind,
   held |-> CASE kind = "kde" -> KDEInit("ok").held
              [] kind = "hybrid" -> HybridInit("ok").held
              [] kind = "x11" -> X11Init("ok").held
              [] OTHER -> {},
   closed |-> FALSE, close_fate |-> "none", dpr |-> dpr, pumped |-> 0]

\* What a close() can meet: every release succeeds, os.close raises OSError
\* (hybrid), or a file removal raises OSError (KDE).
CloseFates(kind) ==
  CASE kind = "hybrid" -> {"ok", "os_close_raises"}
    [] kind = "kde" -> {"ok", "unlink_raises"}
    [] OTHER -> {"ok"}

\* close() of the backend: the resources still held and whether an
\* exception leaves the call.
\*   _WaylandHybridCursor.close: XCloseDisplay, then os.close, unguarded.
\*   _X11Cursor.close: XCloseDisplay.
\*   _KDECursor.close: three releases, each inside try / except Exception.
\*   CursorTracker.close: nothing to release.
CursorClose(c, fate) ==
  CASE c.kind = "hybrid" ->
         IF fate = "os_close_raises"
           THEN [held |-> c.held \ {"x_display"}, raised |-> TRUE]
           ELSE [held |-> OsClose(c.held \ {"x_display"}, "mice_fd"),
                 raised |-> FALSE]
    [] c.kind = "x11" -> [held |-> c.held \ {"x_display"}, raised |-> FALSE]
    [] c.kind = "kde" ->
         IF fate = "unlink_raises"
           THEN [held |-> KDEClose(c.held) \cup {"temp_files"},
                 raised |-> FALSE]
           ELSE [held |-> KDEClose(c.held), raised |-> FALSE]
    [] OTHER -> [held |-> c.held, raised |-> FALSE]

\* What a query returns to _tick: <<x, y, pressed>>, in pixels.
LoopSamples == {<<PtStart, FALSE>>, <<PtBand, FALSE>>, <<PtStart, TRUE>>}

\* Elapsed time between two timeouts.
LoopIntervals == {TICK_INTERVAL, LateTick}

\* "if dpr and dpr != 1.0: mx /= dpr; my /= dpr", for a backend that needs it
DprScale(c, smp) ==
  IF NeedsDprScaling(c.kind) /\ c.dpr # 1
    THEN <<smp[1] \div c.dpr, smp[2] \div c.dpr, smp[3]>>
    ELSE smp

\* The statements of _tick that read what the Pet produced.
OutputReaders ==
  {"seal_events", "seal_position", "clamp", "move_sprite", "animation"}

\* What one statement of _tick leaves as it found it.
Keep ==
  [pet |-> PetNow, sample |-> sample, vis |-> seal_visible,
   wx |-> seal_widget_x, wy |-> seal_widget_y, rendered |-> rendered,
   data |-> <<>>]

\* The effect of one statement of _tick: the Pet, the locals, the seal
\* sprite and the pet sprite after it, and what it was given or read.
StepEffect(name) ==
  CASE name = "reset" ->
         {[Keep EXCEPT !.pet = ResetSignals(PetNow)]}
    [] name = "query" ->
         {[Keep EXCEPT !.sample = <<s[1][1] * PX, s[1][2] * PX, s[2]>>,
                       !.data = <<s[1][1] * PX, s[1][2] * PX, s[2]>>] :
            s \in LoopSamples}
    [] name = "dpr_scale" ->
         {[Keep EXCEPT !.sample = DprScale(cursor, sample),
                       !.data = DprScale(cursor, sample)]}
    [] name = "update_mouse" ->
         {[Keep EXCEPT !.pet = UpdateMouse(PetNow, sample[1], sample[2],
                                           sample[3], now_ms),
                       !.data = sample]}
    [] name = "tick" ->
         {[Keep EXCEPT !.pet = q] : q \in PetTick(PetNow, now_ms)}
    [] name = "seal_events" ->
         {[Keep EXCEPT
             !.wx = IF seal_should_appear
                      THEN MoveCenterTo(sp[1], SealSpriteW) ELSE @,
             !.wy = IF seal_should_appear
                      THEN MoveCenterTo(sp[2], SealSpriteH) ELSE @,
             !.vis = IF seal_should_disappear THEN FALSE
                     ELSE IF seal_should_appear THEN TRUE ELSE @,
             !.data = <<seal_should_appear, seal_should_disappear>>] :
            sp \in (IF seal_should_appear THEN SealPts ELSE {<<0, 0>>})}
    [] name = "seal_position" ->
         {[Keep EXCEPT
             !.pet = IF seal_visible
                       THEN SetSealPosition(
                              PetNow, CenterPos(seal_widget_x, SealSpriteW),
                              CenterPos(seal_widget_y, SealSpriteH))
                       ELSE @,
             !.data = <<seal_visible>>]}
    [] name = "clamp" ->
         {[Keep EXCEPT !.pet = ClampPet(PetNow), !.data = <<x, y>>]}
    [] name = "move_sprite" ->
         {[Keep EXCEPT !.rendered = <<x \div PX, y \div PX, @[3], @[4]>>,
                       !.data = <<x, y>>]}
    [] name = "animation" ->
         {[Keep EXCEPT !.rendered = <<@[1], @[2], current_gif, flipped>>,
                       !.data = <<current_gif, flipped>>]}

\* One statement of AemeathApp.__init__ other than the KDE constructor's
\* event pumping.  create_cursor_tracker returns one of LoopBackends; when
\* it is the KDE backend its constructor first pumps events (ProcessEvents).
InitStep ==
  /\ app_pc = "init"
  /\ pump_left = 0
  /\ LET name == AppInitSteps[step]
         last == step = Len(AppInitSteps)
     IN /\ \E kind \in LoopBackends, d \in DevicePixelRatios :
             /\ (name # "cursor" \/ ~NeedsDprScaling(kind)) => d = 1
             /\ name # "cursor" => kind = "qt"
             /\ cursor' = IF name = "cursor" THEN Constructed(kind, d)
                          ELSE cursor
             /\ pump_left' = IF name = "cursor" /\ kind = "kde"
                               THEN MaxPumps ELSE 0
             /\ step' = IF name = "cursor" /\ kind = "kde" THEN step
                        ELSE IF last THEN 1 ELSE step + 1
             /\ app_pc' = IF last /\ ~(name = "cursor" /\ kind = "kde")
                            THEN "exec" ELSE "init"
        /\ timer_active' = IF name = "timer" THEN TRUE ELSE timer_active
        /\ tray_visible' = IF name = "tray" THEN TRUE ELSE tray_visible
  /\ UNCHANGED <<loop_ticks, sample, tick_log, rendered, reentered,
                 late_query, quit_raised>>
  /\ UNCHANGED <<selVars, petVars, appVars, idle_pick, qVars, stepVars, devVars>>

\* One QApplication.processEvents() of _KDECursor.__init__: pending events
\* are dispatched, a timeout of the tick timer among them when it is active.
ProcessEvents ==
  /\ app_pc = "init"
  /\ pump_left > 0
  /\ pump_left' = pump_left - 1
  /\ cursor' = [cursor EXCEPT !.pumped = @ + 1]
  /\ reentered' = (reentered \/ timer_active)
  /\ step' = IF pump_left = 1
               THEN (IF step = Len(AppInitSteps) THEN 1 ELSE step + 1)
               ELSE step
  /\ app_pc' = IF pump_left = 1 /\ step = Len(AppInitSteps)
                 THEN "exec" ELSE "init"
  /\ UNCHANGED <<timer_active, tray_visible, loop_ticks, sample, tick_log,
                 rendered, late_query, quit_raised>>
  /\ UNCHANGED <<selVars, petVars, appVars, idle_pick, qVars, stepVars, devVars>>

\* The event loop of QApplication.exec() delivers a timeout of the tick
\* timer: _tick begins, "now_ms = (time.monotonic() - self._start_time) * 1000".
Timeout ==
  /\ app_pc = "exec"
  /\ timer_active
  /\ loop_ticks < MaxLoopTicks
  /\ \E dt \in LoopIntervals : now_ms' = now_ms + dt
  /\ app_pc' = "tick"
  /\ step' = 1
  /\ tick_log' = <<>>
  /\ loop_ticks' = loop_ticks + 1
  /\ UNCHANGED <<cursor, timer_active, tray_visible, pump_left, sample,
                 rendered, reentered, late_query, quit_raised>>
  /\ UNCHANGED <<ticks, seal_visible, seal_widget_x, seal_widget_y,
                 tick_state0, tick_entry, tick_dist2, tick_moved, tick_seal0,
                 spawn_count, despawn_count, drag_from>>
  /\ UNCHANGED <<selVars, petVars, idle_pick, qVars, stepVars, devVars>>

\* The next statement of the _tick in progress.  No statement of _tick runs
\* the event loop, so nothing is delivered until _tick returns.
TickStep ==
  /\ app_pc = "tick"
  /\ LET name == TickSteps[step]
     IN /\ \E r \in StepEffect(name) :
             /\ SetPet(r.pet)
             /\ sample' = r.sample
             /\ seal_visible' = r.vis
             /\ seal_widget_x' = r.wx
             /\ seal_widget_y' = r.wy
             /\ rendered' = r.rendered
             /\ tick_log' = Append(tick_log, <<name, r.data>>)
        /\ late_query' = (late_query \/ (name = "query" /\ cursor.closed))
  /\ step' = IF step = Len(TickSteps) THEN 1 ELSE step + 1
  /\ app_pc' = IF step = Len(TickSteps) THEN "exec" ELSE "tick"
  /\ UNCHANGED <<cursor, timer_active, tray_visible, pump_left, loop_ticks,
                 reentered, quit_raised>>
  /\ UNCHANGED <<now_ms, ticks, tick_state0, tick_entry, tick_dist2,
                 tick_moved, tick_seal0, spawn_count, despawn_count,
                 drag_from>>
  /\ UNCHANGED <<selVars, idle_pick, qVars, stepVars, devVars>>

\* The event loop delivers the tray menu's quit action: _quit begins.
QuitTriggered ==
  /\ app_pc = "exec"
  /\ tray_visible
  /\ app_pc' = "quit"
  /\ step' = 1
  /\ UNCHANGED <<cursor, timer_active, tray_visible, pump_left, loop_ticks,
                 sample, tick_log, rendered, reentered, late_query,
                 quit_raised>>
  /\ UNCHANGED <<selVars, petVars, appVars, idle_pick, qVars, stepVars, devVars>>

\* The next statement of the _quit in progress.  An exception out of
\* self._cursor.close() leaves the slot; the event loop goes on.
QuitStep ==
  /\ app_pc = "quit"
  /\ LET name == QuitSteps[step]
     IN /\ \E fate \in CloseFates(cursor.kind) :
             LET res == CursorClose(cursor, fate)
                 raises == name = "cursor_close" /\ res.raised
             IN /\ name # "cursor_close" => fate = "ok"
                /\ cursor' = IF name = "cursor_close"
                               THEN [cursor EXCEPT !.held = res.held,
                                                   !.closed = TRUE,
                                                   !.close_fate = fate]
                               ELSE cursor
                /\ quit_raised' = (quit_raised \/ raises)
                /\ app_pc' = IF raises THEN "exec"
                             ELSE IF name = "app_quit" THEN "exited"
                             ELSE "quit"
                /\ step' = IF raises \/ name = "app_quit" THEN 1
                           ELSE step + 1
        /\ timer_active' = IF name = "timer_stop" THEN FALSE ELSE timer_active
        /\ tray_visible' = IF name = "tray_hide" THEN FALSE ELSE tray_visible
  /\ UNCHANGED <<pump_left, loop_ticks, sample, tick_log, rendered,
                 reentered, late_query>>
  /\ UNCHANGED <<selVars, petVars, appVars, idle_pick, qVars, stepVars, devVars>>

\* AemeathApp.__init__ begins: the sprites exist, nothing else does.
InitLoop ==
  /\ SelDoneQt
  /\ AppInitial
  /\ QueryQuiet
  /\ app_pc = "init" /\ step = 1
  /\ cursor = NoCursor
  /\ timer_active = FALSE /\ tray_visible = FALSE
  /\ pump_left = 0 /\ loop_ticks = 0
  /\ sample = <<0, 0, FALSE>>
  /\ tick_log = <<>>
  /\ rendered = <<StartX, StartY, GIF_MOVE, FALSE>>
  /\ reentered = FALSE /\ late_query = FALSE /\ quit_raised = FALSE
  /\ StepQuiet
  /\ DevQuiet

NextLoop ==
  \/ InitStep
  \/ ProcessEvents
  \/ Timeout
  \/ TickStep
  \/ QuitTriggered
  \/ QuitStep

SpecLoop == InitLoop /\ [][NextLoop]_vars

(***************************************************************************)
(* Properties of the application loop                                       *)
(***************************************************************************)

\* Number of times the _tick in progress, or the last one, ran a statement.
TimesRun(name) ==
  Cardinality({i \in 1..Len(tick_log) : tick_log[i][1] = name})

\* Every run of statement b in the log comes after a run of statement a.
RunBefore(a, b) ==
  \A j \in 1..Len(tick_log) :
    tick_log[j][1] = b => \E i \in 1..(j - 1) : tick_log[i][1] = a

\* What the first run of a statement was given or read.
DataOf(name) ==
  tick_log[CHOOSE i \in 1..Len(tick_log) : tick_log[i][1] = name][2]

TickDone == app_pc # "tick" /\ loop_ticks > 0

\* C16: in every _tick the one-shot flags are cleared first, then the backend
\* is queried once, then update_mouse is called once with the sample of that
\* query (in logical pixels), then Pet.tick is called once, and every
\* statement that reads what the Pet produced (seal flags, position,
\* animation, flip) runs after Pet.tick; a finished _tick has run each of
\* the four exactly once.
C16_TickOrdering ==
  /\ \A n \in {"reset", "query", "update_mouse", "tick"} :
       /\ TimesRun(n) <= 1
       /\ TickDone => TimesRun(n) = 1
  /\ RunBefore("reset", "query")
  /\ RunBefore("query", "update_mouse")
  /\ RunBefore("update_mouse", "tick")
  /\ \A r \in OutputReaders : RunBefore("tick", r)
  /\ (Len(tick_log) > 0 /\ tick_log[Len(tick_log)][1] = "reset")
       => (~seal_should_appear /\ ~seal_should_disappear)
  /\ TimesRun("update_mouse") = 1
       => /\ TimesRun("query") = 1
          /\ DataOf("update_mouse") = DprScale(cursor, DataOf("query"))

\* C16 witness: a second _tick has finished on a backend that reports
\* physical pixels on a screen of ratio 2, and the pet sprite was moved.
C16_Witness ==
  /\ TickDone /\ app_pc = "exec" /\ loop_ticks = 2
  /\ Len(tick_log) = Len(TickSteps)
  /\ cursor.kind = "x11" /\ cursor.dpr = 2
  /\ DataOf("query") # DataOf("update_mouse")
  /\ rendered[1] # StartX

\* C17: a one-shot signal that is raised when a tick ends was raised by that
\* tick: seal_should_appear only by a tick that began without a seal and
\* made one, seal_should_disappear only by a tick that began with a seal and
\* dismissed it.  A signal raised by one tick is therefore not seen by the
\* next, and the two are never raised together.
C17_OneShotSignals ==
  /\ seal_should_appear => (~tick_seal0 /\ seal_active)
  /\ seal_should_disappear => (tick_seal0 /\ ~seal_active)
  /\ ~(seal_should_appear /\ seal_should_disappear)

\* C17 witness: the tick after the one that dismissed the seal; neither
\* signal is raised.
C17_Witness ==
  /\ despawn_count = 1 /\ spawn_count = 0
  /\ ~tick_seal0 /\ ~seal_active
  /\ ~seal_should_disappear /\ ~seal_should_appear

\* The parts of the shutdown contract.
TimerStoppedBeforeClose == cursor.closed => ~timer_active

CloseReleasesAll ==
  (cursor.closed /\ cursor.close_fate = "ok") => cursor.held = {}

ReleaseFailureHarmless ==
  (cursor.closed /\ app_pc # "quit") => app_pc = "exited"

NoQueryAfterClose == ~late_query

\* C19: on quit the timer is stopped before close() is called on the
\* backend, a close() whose releases all succeed leaves the backend holding
\* nothing, a _quit that has called close() goes on to quit the application
\* whatever the releases met, and no query is made on a closed backend.
C19_Shutdown ==
  /\ TimerStoppedBeforeClose
  /\ CloseReleasesAll
  /\ ReleaseFailureHarmless
  /\ NoQueryAfterClose

\* A tick begins only when the one before it has run its last statement.
TickBeginsAfterLast ==
  loop_ticks' # loop_ticks
    => (app_pc = "exec" /\ (loop_ticks = 0 \/ Len(tick_log) = Len(TickSteps)))

\* C20: no timeout is delivered while a call is in progress: a tick begins
\* only from the idle event loop, after the previous tick has run all its
\* statements, and the processEvents calls of the KDE constructor are made
\* during __init__ only, with the tick timer not started and no tick run.
C20_NoOverlap ==
  /\ [](/\ ~reentered
        /\ pump_left > 0 => (app_pc = "init" /\ ~timer_active)
        /\ (cursor.pumped > 0 /\ loop_ticks = 0 /\ app_pc = "init")
             => ~timer_active
        /\ app_pc = "tick" => (pump_left = 0 /\ timer_active))
  /\ [][TickBeginsAfterLast]_vars

\* C20 witness: the KDE constructor pumped events, and a second tick is in
\* progress.
C20_Witness ==
  /\ cursor.kind = "kde" /\ cursor.pumped = MaxPumps
  /\ app_pc = "tick" /\ loop_ticks = 2 /\ step > 2

(***************************************************************************)
(* Single steps of the Pet (pet.py): update_mouse followed by tick, from a  *)
(* set of situations a running Pet can be in                                *)
(***************************************************************************)

\* Number of update_mouse / tick pairs run from a situation.
MaxSteps == 2

\* The time of the situations: the pointer can have been still for longer
\* than MOUSE_IDLE_T2.
StepNow == MOUSE_IDLE_T2 + 5000

\* The pointer of the situations, in units of 1/PX pixel.
HomeX == StartX * PX

HomeY == StartY * PX

\* A Pet that has been fed the pointer <<HomeX, HomeY>> up to StepNow; the
\* last above-threshold movement was at time since.
Settled(since) ==
  [PetInit(HomeX, HomeY) EXCEPT
     !.mouse_idle_start_ms = since,
     !.mouse_idle_time = StepNow - since]

\* Times of the last above-threshold movement: none, or a second ago.
MoveTimes == {0, StepNow - 1000}

\* A timer that has run out by the next tick, and one that has not.
Expired == StepNow

Running == StepNow + 1000

\* Offsets of the pet from the point it heads for, in units of 1/PX pixel:
\* on it, nearer than wander_speed, exactly wander_speed away, exactly
\* move_speed away, and farther.
PetOffsets ==
  {<<0, 0>>, <<1, 0>>, <<0, -wander_speed>>, <<-move_speed, 0>>,
   <<30, -40>>, <<-90 * PX, 0>>, <<120 * PX, 160 * PX>>}

\* CHASING: the pet at an offset from the pointer.
ChasingSituations ==
  {[Settled(since) EXCEPT !.x = HomeX + o[1], !.y = HomeY + o[2]] :
     since \in MoveTimes, o \in PetOffsets}

\* WANDERING: anchored at the pointer, the sub-target one of the picks of
\* _pick_wander_target, the pet at an offset from the sub-target.
WanderingSituations ==
  {[WanderTarget([Settled(since) EXCEPT !.state = WANDERING], 0, w) EXCEPT
      !.x = HomeX + w[2] * PX * w[1][1] + o[1],
      !.y = HomeY + w[2] * PX * w[1][2] + o[2],
      !.wander_end_time = e,
      !.wander_dir_change_time = d] :
     since \in MoveTimes, w \in WanderDraws, o \in PetOffsets,
     e \in {Expired, Running}, d \in {Expired, Running}}

\* How far the pointer has drifted, in steps not above the threshold, since
\* idling began: not at all, or 48 pixels (units of 1/PX pixel).
IdleDrifts == {0, 48 * PX}

\* IDLING: begun with the pointer where it is or a drift away from there,
\* the pet at an offset from the pointer.
IdlingSituations ==
  {[Settled(since) EXCEPT
      !.state = IDLING, !.x = HomeX + o[1], !.y = HomeY + o[2],
      !.current_gif = GIF_IDLE[1],
      !.idle_anchor_mouse_x = HomeX - a,
      !.idle_end_time = e] :
     since \in MoveTimes, o \in PetOffsets, e \in {Expired, Running},
     a \in IdleDrifts}

\* SEAL_MODE: the pointer still since time 0, the seal shown at one of the
\* points of _show_seal, the seal sub-target one of the picks around it or
\* not yet picked, the pet at an offset from the sub-target.
SealSituations ==
  {[Settled(0) EXCEPT
      !.state = SEAL_MODE, !.seal_active = TRUE,
      !.seal_x = sp[1] * PX, !.seal_y = sp[2] * PX,
      !.seal_wander_target_x = IF d = 0 THEN 0 ELSE sp[1] * PX + w[2] * PX * w[1][1],
      !.seal_wander_target_y = IF d = 0 THEN 0 ELSE sp[2] * PX + w[2] * PX * w[1][2],
      !.seal_wander_dir_time = d,
      !.x = sp[1] * PX + w[2] * PX * w[1][1] + o[1],
      !.y = sp[2] * PX + w[2] * PX * w[1][2] + o[2]] :
     sp \in SealPts, w \in SealWanderDraws, o \in PetOffsets,
     d \in {0, Expired, Running}}

\* DRAGGING: the button held, entered from the state prev of a situation.
DraggingSituations ==
  {[p EXCEPT !.prev_state = p.state, !.state = DRAGGING,
             !.mouse_pressed = TRUE, !.current_gif = GIF_DRAG,
             !.flipped = FALSE] :
     p \in {q \in ChasingSituations \cup WanderingSituations
                    \cup IdlingSituations \cup SealSituations :
              q.mouse_idle_start_ms = 0 /\ q.wander_end_time # Running}}

PetSituations ==
  ChasingSituations \cup WanderingSituations \cup IdlingSituations
    \cup SealSituations \cup DraggingSituations

\* What one step is fed: the pointer where it was, 5 pixels from there (not
\* above MOUSE_MOVE_THRESHOLD), 10 pixels, 60 pixels and 300 pixels from
\* there, in units of 1/PX pixel and relative to the last sample; the button.
StepMoves ==
  {<<0, 0>>, <<3 * PX, 4 * PX>>, <<6 * PX, 8 * PX>>, <<60 * PX, 0>>,
   <<-180 * PX, 240 * PX>>}

\* The Pet's part of one AemeathApp._tick: the one-shot signals reset, then
\* update_mouse(mx, my, pressed, now), then tick(now).
FeedPet(m, pressed) ==
  /\ LET now == now_ms + TICK_INTERVAL
           mx == last_mouse_x + m[1]
           my == last_mouse_y + m[2]
           p0 == ResetSignals(PetNow)
           p1 == UpdateMouse(p0, mx, my, pressed, now)
       IN /\ \E q \in PetTick(p1, now) :
               /\ SetPet(q)
               /\ mv' = [NoMove EXCEPT !.raised = q.raised]
          /\ step_pet0' = p0
          /\ step_sample' = <<mx, my, pressed, now>>
          /\ still' = IF Hypot2(mx - step_sample[1], my - step_sample[2])
                             > Sq(MOUSE_MOVE_THRESHOLD * PX)
                        THEN [n |-> 0, x |-> mx, y |-> my, since |-> now,
                              seal |-> FALSE]
                        ELSE [still EXCEPT !.n = @ + 1]
          /\ now_ms' = now
          /\ tick_state0' = state
          /\ tick_entry' = DragDetect(p1).state
          /\ tick_dist2' = TickDist2(p1)
          /\ tick_moved' = Moved(p0, mx, my)
          /\ tick_seal0' = seal_active
  /\ steps' = steps + 1
  /\ UNCHANGED <<ticks, seal_visible, seal_widget_x, seal_widget_y,
                 spawn_count, despawn_count, drag_from>>
  /\ UNCHANGED moves
  /\ UNCHANGED <<selVars, idle_pick, loopVars, devVars>>

\* One tick of the Pet of a situation, the sample at an offset from the last
\* one.
PetStep ==
  /\ steps < MaxSteps
  /\ moves = 0
  /\ \E m \in StepMoves, pressed \in BOOLEAN : FeedPet(m, pressed)
  /\ UNCHANGED qVars

\* The Pet in one of the situations at time StepNow.
StepInitial(situations) ==
  /\ SelDoneQt
  /\ \E p \in situations : PetIs(p)
  /\ now_ms = StepNow /\ ticks = 0
  /\ seal_visible = seal_active
  /\ seal_widget_x = 0 /\ seal_widget_y = 0
  /\ tick_state0 = CHASING /\ tick_entry = CHASING /\ tick_dist2 = 0
  /\ tick_moved = FALSE /\ tick_seal0 = FALSE
  /\ spawn_count = 0 /\ despawn_count = 0 /\ drag_from = "none"
  /\ idle_pick = <<-1, 1, 0>>
  /\ LoopQuiet
  /\ step_pet0 = PetNow
  /\ step_sample = <<mouse_x, mouse_y, mouse_pressed, StepNow>>
  /\ steps = 0
  /\ mv = NoMove
  /\ moves = 0
  /\ still = StillFrom(PetNow)
  /\ DevQuiet

InitStepPet == StepInitial(PetSituations) /\ QueryQuiet

\* Components of the vector to the target of a direct _move_toward call, in
\* units of 1/PX pixel.
MoveDeltas == {-12, -wander_speed, 0, 1, move_speed}

\* Speeds: 0, and the two speeds of the Pet.
MoveSpeeds == {0, wander_speed, move_speed}

\* One call self._move_toward(dx, dy, math.hypot(dx, dy), speed) on the Pet of
\* a situation.
MoveCall ==
  /\ moves = 0 /\ steps = 0
  /\ \E dx \in MoveDeltas, dy \in MoveDeltas, speed \in MoveSpeeds :
       LET dist2 == Hypot2(dx, dy)
           q == MoveToward(PetNow, dx, dy, dist2, speed)
       IN /\ SetPet(q)
          /\ mv' = [dx |-> dx, dy |-> dy, dist2 |-> dist2, speed |-> speed,
                    x0 |-> x, y0 |-> y, x1 |-> q.x, y1 |-> q.y,
                    raised |-> q.raised]
  /\ moves' = moves + 1
  /\ UNCHANGED <<step_pet0, step_sample, steps, still>>
  /\ UNCHANGED <<selVars, appVars, idle_pick, qVars, loopVars, devVars>>

NextStep == PetStep \/ MoveCall

SpecStep == InitStepPet /\ [][NextStep]_vars

\* ---------------------------------------------------------------------------
\* Ticks fed by a socket or bus backend: each _tick queries the backend and
\* feeds what query() returns to the Pet.
\* ---------------------------------------------------------------------------

\* What query() of the backend returns for a reply, and what its helper did.
IpcResults ==
  IF q_backend = "hyprland"
    THEN {[res |-> HyprlandQuery(reply), got |-> HyprGetPos(reply),
           btn |-> FALSE] : reply \in HyprReplies}
    ELSE {LET got == IF q_use_gi THEN GnomeQueryGi(reply)
                     ELSE GnomeQuerySubprocess(reply)
          IN [res |-> GnomeQuery(q_use_gi, reply),
              got |-> [exc |-> got.exc, pos |-> got.pos], btn |-> got.btn] :
            reply \in GnomeReplies}

\* The Hyprland backend reports no button, so its Pet is never dragged.
IpcSituations(backend) ==
  IF backend = "hyprland" THEN PetSituations \ DraggingSituations
  ELSE PetSituations

InitIpc ==
  /\ q_backend \in {"hyprland", "gnome"}
  /\ q_use_gi \in (IF q_backend = "gnome" THEN BOOLEAN ELSE {FALSE})
  /\ hybrid = HybridSeed(<<0, 0, 0>>)
  /\ queries = 0
  /\ q_last = NoQuery
  /\ q_run = RunFrom(0, 0)
  /\ StepInitial(IpcSituations(q_backend))

\* One _tick: mx, my, buttons = self._cursor.query(); needs_dpr_scaling is
\* False for these backends, so the sample is fed as returned.
IpcTick ==
  /\ steps < MaxSteps
  /\ moves = 0
  /\ \E r \in IpcResults :
       /\ ~r.res.raised
       /\ q_last' = [kind |-> q_backend, pkts |-> <<>>, reading |-> <<0, 0, 0>>,
                     before |-> hybrid, failed |-> r.got.exc # "none",
                     real |-> <<r.got.pos[1], r.got.pos[2], r.btn>>,
                     prev_failed |-> q_last.failed, raised |-> r.res.raised,
                     ret |-> r.res.ret]
       /\ FeedPet(<<r.res.ret[1] * PX - last_mouse_x,
                    r.res.ret[2] * PX - last_mouse_y>>, r.res.ret[3])
  /\ queries' = queries + 1
  /\ UNCHANGED <<q_backend, q_use_gi, hybrid, q_run>>

NextIpc == IpcTick

SpecIpc == InitIpc /\ [][NextIpc]_vars

\* ---------------------------------------------------------------------------
\* The pointer at rest: the QTimer of AemeathApp keeps firing _tick, every
\* sample is the same point with the button up.
\* ---------------------------------------------------------------------------

\* Ticks of one run with the pointer at rest.
MaxLiveTicks == 200

\* Times of the last above-threshold movement: none, or so that the mouse
\* idle time passes MOUSE_IDLE_T2 five seconds after StepNow.
LiveMoveTimes == {0, StepNow + 5000 - MOUSE_IDLE_T2}

\* Offsets of the pet from the pointer, in units of 1/PX pixel: nearer than
\* NEAR_DISTANCE, and 200 pixels away.
LiveOffsets == {<<30, -40>>, <<120 * PX, 160 * PX>>}

\* CHASING without a seal, the pet at an offset from the pointer.
LiveSituations ==
  {[Settled(since) EXCEPT !.x = HomeX + o[1], !.y = HomeY + o[2]] :
     since \in LiveMoveTimes, o \in LiveOffsets}

InitLive == StepInitial(LiveSituations) /\ QueryQuiet

\* A run is followed up to the tick after the one that spawns the seal.
LiveDue == steps < MaxLiveTicks /\ ~tick_seal0

\* One timer tick with the sample of the tick before.
LiveTick ==
  /\ LiveDue
  /\ FeedPet(<<0, 0>>, FALSE)
  /\ UNCHANGED qVars

NextLive == LiveTick

\* What a tick does to the count of ticks. FeedPet has a successor in every
\* state, so a tick is enabled exactly when LiveDue holds, and the steps
\* that change the count are the LiveTick steps.
TimerFires == LiveDue /\ steps' = steps + 1

\* The timer is periodic and _tick returns: a tick that stays due is run.
SpecLive == InitLive /\ [][NextLive]_vars /\ WF_steps(TimerFires)

(***************************************************************************)
(* The raw device of the hybrid backend (cursor.py): packets queue on       *)
(* /dev/input/mice between calls of _read_mice                              *)
(***************************************************************************)

\* Calls of _read_mice made, and chunks the device queues, in SpecDrain.
MaxDrains == 2

MaxArrivals == 3

\* The flags /dev/input/mice is opened with.
MiceOpenFlags == {"O_RDONLY", "O_NONBLOCK"}

\* What one os.read(self._mice_fd, 3) can return from the queue: a packet,
\* or fewer than 3 bytes.
ShortChunk == <<8, 3>>

MiceChunks == {PkRightDown, PkLeftUpPressed, PkNoise, PkClick, ShortChunk}

\* `if len(data) < 3: break`
IsShort(data) == Len(data) < 3

\* The number of packets the loop of _read_mice adds up on the device dev:
\* those before the first short chunk.
RECURSIVE Counted(_)
Counted(dev) ==
  IF dev = <<>> \/ IsShort(Head(dev)) THEN 0 ELSE 1 + Counted(Tail(dev))

\* _read_mice on the device dev: what it returns, what is left on the
\* device, the os.read calls it makes, and whether the last of them blocks
\* (a read of an empty device without O_NONBLOCK waits for a packet).
DrainMice(dev) ==
  LET n == Counted(dev)
      ended_short == n < Len(dev)
  IN [dev |-> dev,
      ret |-> ReadMice(SubSeq(dev, 1, n)),
      rest |-> SubSeq(dev, n + 2, Len(dev)),
      reads |-> n + 1,
      blocked |-> ~ended_short /\ "O_NONBLOCK" \notin MiceOpenFlags]

\* The mouse moves or clicks: the device queues a chunk.
MiceArrive ==
  /\ Len(mice_arrived) < MaxArrivals
  /\ \E c \in MiceChunks :
       /\ mice_dev' = Append(mice_dev, c)
       /\ mice_arrived' = Append(mice_arrived, c)
  /\ UNCHANGED <<mice_last, mice_counted, mice_dropped, drains>>
  /\ UNCHANGED <<selVars, petVars, appVars, idle_pick, qVars, loopVars,
                 stepVars>>

\* One call of _read_mice.
MiceDrain ==
  /\ drains < MaxDrains
  /\ LET d == DrainMice(mice_dev)
     IN /\ ~d.blocked
        /\ mice_last' = d
        /\ mice_dev' = d.rest
        /\ mice_counted' = mice_counted \o SubSeq(mice_dev, 1, d.reads - 1)
        /\ mice_dropped' =
             mice_dropped + (IF d.reads <= Len(mice_dev) THEN 1 ELSE 0)
  /\ drains' = drains + 1
  /\ UNCHANGED mice_arrived
  /\ UNCHANGED <<selVars, petVars, appVars, idle_pick, qVars, loopVars,
                 stepVars>>

\* The hybrid backend constructed, nothing yet pending on its device.
InitDrain == SelDoneQt /\ AppInitial /\ AuxInitial

NextDrain == MiceArrive \/ MiceDrain

SpecDrain == InitDrain /\ [][NextDrain]_vars

(***************************************************************************)
(* Properties of single steps of the Pet (SpecStep)                         *)
(***************************************************************************)

\* The step just taken: the Pet before it, what it was fed, the Pet after
\* update_mouse, and the Pet after the drag detection of tick.
Stepped == steps > 0

FedX == step_sample[1]

FedY == step_sample[2]

FedPressed == step_sample[3]

FedNow == step_sample[4]

\* Square of the displacement between the new sample and the previous one.
Displacement2 ==
  Hypot2(FedX - step_pet0.last_mouse_x, FedY - step_pet0.last_mouse_y)

AboveThreshold == Displacement2 > Sq(MOUSE_MOVE_THRESHOLD * PX)

\* C21: on every update_mouse, in every state, a displacement from the
\* previous sample above MOUSE_MOVE_THRESHOLD sets the mouse-idle time to 0,
\* makes this the time of the last movement and, when a seal was active,
\* clears it and raises seal_should_disappear; any other sample sets the
\* mouse-idle time to now minus the time of the last movement (0 when there
\* was none), and leaves the seal and the signal as they were (the tick that
\* follows may spawn a seal).
C21_MouseIdleTracker ==
  Stepped =>
    IF AboveThreshold
      THEN /\ mouse_idle_time = 0
           /\ mouse_idle_start_ms = FedNow
           /\ ~seal_active
           /\ seal_should_disappear = step_pet0.seal_active
      ELSE /\ mouse_idle_time = FedNow - step_pet0.mouse_idle_start_ms
           /\ mouse_idle_start_ms = step_pet0.mouse_idle_start_ms
           /\ ~seal_should_disappear
           /\ seal_active = (step_pet0.seal_active \/ seal_should_appear)

\* C21 witness: a pet dragged out of SEAL_MODE with the seal shown is fed a
\* movement above the threshold and the seal is dismissed while the state
\* stays DRAGGING.
C21_Witness ==
  /\ Stepped
  /\ step_pet0.state = DRAGGING /\ step_pet0.seal_active
  /\ AboveThreshold
  /\ state = DRAGGING /\ seal_should_disappear /\ mouse_idle_time = 0

\* The seal is active when tick runs: it was, and update_mouse kept it.
SealAtTick == step_pet0.seal_active /\ ~AboveThreshold

\* The state after the drag detection of tick, told from what was fed.
EntryState ==
  IF FedPressed /\ step_pet0.state # DRAGGING THEN DRAGGING
  ELSE IF ~FedPressed /\ step_pet0.state = DRAGGING THEN step_pet0.prev_state
  ELSE step_pet0.state

\* C22: on every tick the distance handed to the state handler is measured,
\* after the drag detection, to the seal position when a seal is active and
\* the state is not DRAGGING, and to the pointer position in every other
\* case.
C22_TargetSelection ==
  Stepped =>
    /\ tick_entry = EntryState
    /\ tick_dist2 =
         IF SealAtTick /\ EntryState # DRAGGING
           THEN Hypot2(step_pet0.seal_x - step_pet0.x,
                       step_pet0.seal_y - step_pet0.y)
           ELSE Hypot2(FedX - step_pet0.x, FedY - step_pet0.y)

\* C22 witness: a seal is active and the tick is handled in DRAGGING, so the
\* distance is the one to the pointer, which differs from the one to the seal.
C22_Witness ==
  /\ Stepped /\ SealAtTick /\ EntryState = DRAGGING
  /\ tick_dist2 = Hypot2(FedX - step_pet0.x, FedY - step_pet0.y)
  /\ tick_dist2 # Hypot2(step_pet0.seal_x - step_pet0.x,
                         step_pet0.seal_y - step_pet0.y)

\* The step a _move_toward call took, and the absolute value.
MovedX == mv.x1 - mv.x0

MovedY == mv.y1 - mv.y0

Abs(a) == IF a < 0 THEN -a ELSE a

\* The step has the direction of the vector d along one axis and is no
\* longer than it.
Within(stepped, d) == stepped * d >= 0 /\ Abs(stepped) <= Abs(d)

\* C23: a _move_toward call with speed >= 0 moves the pet along the straight
\* line to the target by min(dist, speed): when dist <= speed the pet lands
\* on the target; otherwise the step has length speed (to the resolution of
\* the coordinates, one unit per axis), points to the target and does not
\* pass it, so that the pet ends no farther from the target than it was.
C23_MovePrimitive ==
  moves > 0 =>
    IF mv.dist2 <= Sq(mv.speed)
      THEN MovedX = mv.dx /\ MovedY = mv.dy
      ELSE /\ Within(MovedX, mv.dx) /\ Within(MovedY, mv.dy)
           /\ Hypot2(MovedX, MovedY) <= Sq(mv.speed)
           /\ Hypot2(Abs(MovedX) + 1, Abs(MovedY) + 1) > Sq(mv.speed)
           /\ Abs(mv.dx * MovedY - mv.dy * MovedX) <= Abs(mv.dx) + Abs(mv.dy)
           /\ Hypot2(mv.dx - MovedX, mv.dy - MovedY) <= mv.dist2

\* C23 witness: a call with the target nearer than the speed and off both
\* axes; the pet has landed on it.
C23_Witness ==
  /\ moves > 0
  /\ mv.dx # 0 /\ mv.dy # 0 /\ mv.dist2 < Sq(mv.speed)
  /\ x = mv.x0 + mv.dx /\ y = mv.y0 + mv.dy

\* The tick just taken found the target far away with no seal active.
TickFar == Far(tick_dist2) /\ ~SealAtTick

\* The pet is where it was before the step.
Unmoved == x = step_pet0.x /\ y = step_pet0.y

\* The tick just taken was handled in WANDERING and left by neither exit.
WanderKept ==
  /\ Stepped /\ EntryState = WANDERING
  /\ ~TickFar
  /\ ~(FedNow > step_pet0.wander_end_time)

\* The tick just taken was handled in SEAL_MODE with the seal active and the
\* pet no farther than NEAR_DISTANCE from it.
SealWanderKept ==
  /\ Stepped /\ EntryState = SEAL_MODE /\ SealAtTick
  /\ ~FarAboveNear(tick_dist2)

\* C24: no update_mouse / tick pair and no _move_toward call with a speed
\* >= 0 is left by a division by zero, and a zero distance counts as
\* arrived: a _move_toward call with dist = 0 does not move the pet, a
\* CHASING tick with the target on the pet does not move it, and neither
\* does a wandering or seal-mode tick whose current sub-target is on the pet.
C24_NoFallibleStep ==
  /\ ~mv.raised
  /\ (moves > 0 /\ mv.dist2 = 0) => (x = mv.x0 /\ y = mv.y0)
  /\ (Stepped /\ EntryState = CHASING /\ tick_dist2 = 0) => Unmoved
  /\ ( /\ WanderKept
       /\ ~(FedNow > step_pet0.wander_dir_change_time)
       /\ step_pet0.wander_target_x = step_pet0.x
       /\ step_pet0.wander_target_y = step_pet0.y ) => Unmoved
  /\ ( /\ SealWanderKept
       /\ ~(FedNow > step_pet0.seal_wander_dir_time)
       /\ step_pet0.seal_wander_target_x = step_pet0.x
       /\ step_pet0.seal_wander_target_y = step_pet0.y ) => Unmoved

\* C24 witness: a wandering tick finds the pet on its sub-target with the
\* direction timer still running; the pet stays where it is and a new
\* sub-target is picked.
C24_Witness ==
  /\ WanderKept
  /\ ~(FedNow > step_pet0.wander_dir_change_time)
  /\ step_pet0.wander_target_x = step_pet0.x
  /\ step_pet0.wander_target_y = step_pet0.y
  /\ Unmoved /\ ~mv.raised /\ state = WANDERING
  /\ wander_dir_change_time > step_pet0.wander_dir_change_time

\* The step the pet took in the tick just taken.
StepX == x - step_pet0.x

StepY == y - step_pet0.y

\* A step <<sx, sy>> toward a target at <<dx, dy>>, farther away than speed:
\* it has length speed to the resolution of the coordinates (one unit per
\* axis), lies on the line to the target and does not pass it.
MovesBy(sx, sy, dx, dy, speed) ==
  /\ Within(sx, dx) /\ Within(sy, dy)
  /\ Hypot2(sx, sy) <= Sq(speed)
  /\ Hypot2(Abs(sx) + 1, Abs(sy) + 1) > Sq(speed)
  /\ Abs(dx * sy - dy * sx) <= Abs(dx) + Abs(dy)

\* A step <<sx, sy>> of min(dist, speed) toward a target at <<dx, dy>>.
MovesMin(sx, sy, dx, dy, speed) ==
  IF Hypot2(dx, dy) <= Sq(speed)
    THEN sx = dx /\ sy = dy
    ELSE MovesBy(sx, sy, dx, dy, speed)

\* The point <<px, py>> lies between lo and hi pixels from <<ax, ay>>.
Ring(px, py, ax, ay, lo, hi) ==
  /\ Hypot2(px - ax, py - ay) >= Sq(lo * PX)
  /\ Hypot2(px - ax, py - ay) <= Sq(hi * PX)

\* What _init_wander leaves at time FedNow: the anchor on the pointer, the
\* end timer and the direction timer in their windows, the first sub-target
\* in the ring around the anchor.
WanderInitialised ==
  /\ wander_anchor_x = FedX /\ wander_anchor_y = FedY
  /\ wander_end_time >= FedNow + WANDER_DURATION_MIN
  /\ wander_end_time <= FedNow + WANDER_DURATION_MAX
  /\ wander_dir_change_time >= FedNow + WANDER_DIR_CHANGE_MIN
  /\ wander_dir_change_time <= FedNow + WANDER_DIR_CHANGE_MAX
  /\ Ring(wander_target_x, wander_target_y, FedX, FedY,
          WANDER_MIN, WANDER_RADIUS)

\* C25: a tick handled in CHASING with the target at distance d >=
\* NEAR_DISTANCE moves the pet min(d, move_speed) toward the target, shows
\* the move animation, sets flipped exactly when the target is to the left
\* and stays CHASING; with d < NEAR_DISTANCE the pet does not move, the
\* state becomes WANDERING and the wander anchor, the wander-end timer and
\* the first wander sub-target are initialised.
C25_ChasingStep ==
  (Stepped /\ EntryState = CHASING) =>
    IF Near(tick_dist2)
      THEN Unmoved /\ state = WANDERING /\ WanderInitialised
      ELSE /\ MovesMin(StepX, StepY, FedX - step_pet0.x, FedY - step_pet0.y,
                       move_speed)
           /\ state = CHASING
           /\ current_gif = GIF_MOVE
           /\ flipped = (FedX - step_pet0.x < 0)

\* C25 witness: a pet chasing a pointer to its left, released from a drag,
\* takes a step of move_speed toward it and turns round.
C25_Witness ==
  /\ Stepped /\ EntryState = CHASING /\ step_pet0.state = DRAGGING
  /\ ~Near(tick_dist2)
  /\ StepX < 0 /\ flipped /\ current_gif = GIF_MOVE /\ state = CHASING

\* The wander-end timer had run out when the tick just taken was handled.
WanderOver == FedNow > step_pet0.wander_end_time

\* C26: a tick handled in WANDERING ends in CHASING when the target is
\* farther than FAR_DISTANCE and no seal is active, whether or not the
\* wander-end timer has run out; otherwise in IDLING when now is past the
\* wander-end timer; otherwise in WANDERING.  So no tick handled in
\* WANDERING past the timer ends in WANDERING; and as a wandering tick
\* never moves the timer, which _init_wander sets no later than
\* WANDER_DURATION_MAX after the tick that begins the wander, the last tick
\* of an uninterrupted wander comes no later than WANDER_DURATION_MAX after
\* its first and the tick after that one leaves WANDERING.
C26_WanderingExits ==
  /\ (Stepped /\ EntryState = WANDERING) =>
       /\ state = IF TickFar THEN CHASING
                  ELSE IF WanderOver THEN IDLING
                  ELSE WANDERING
       /\ wander_end_time = step_pet0.wander_end_time
       /\ state = WANDERING => FedNow <= wander_end_time
  /\ (Stepped /\ EntryState # WANDERING /\ state = WANDERING) =>
       /\ wander_end_time <= FedNow + WANDER_DURATION_MAX
       /\ FedNow <= wander_end_time

\* C26 witness: the pointer has gone far from a wandering pet whose
\* wander-end timer has also run out; the pet chases.
C26_Witness ==
  /\ Stepped /\ EntryState = WANDERING /\ step_pet0.state = WANDERING
  /\ TickFar /\ WanderOver
  /\ state = CHASING

\* The pointer is farther than 10 x MOUSE_MOVE_THRESHOLD from where it was
\* when idling began.
AnchorLeft ==
  Hypot2(FedX - step_pet0.idle_anchor_mouse_x,
         FedY - step_pet0.idle_anchor_mouse_y)
    > Sq(10 * MOUSE_MOVE_THRESHOLD * PX)

\* C27: a tick handled in IDLING with no seal active ends in CHASING when
\* the target is farther than FAR_DISTANCE; otherwise in WANDERING,
\* initialised anew, when the pointer is farther than 10 x
\* MOUSE_MOVE_THRESHOLD from the idle anchor; otherwise in SEAL_MODE with
\* the seal spawned when the mouse-idle time exceeds MOUSE_IDLE_T2;
\* otherwise in IDLING.  A seal is spawned only by a tick handled in IDLING
\* with the pointer within FAR_DISTANCE of the pet and within 10 x threshold
\* of the idle anchor.
C27_IdlingExits ==
  /\ (Stepped /\ EntryState = IDLING /\ ~SealAtTick) =>
       IF Far(tick_dist2)
         THEN state = CHASING /\ ~seal_active /\ ~seal_should_appear
       ELSE IF AnchorLeft
         THEN /\ state = WANDERING /\ WanderInitialised
              /\ ~seal_active /\ ~seal_should_appear
       ELSE IF mouse_idle_time > MOUSE_IDLE_T2
         THEN state = SEAL_MODE /\ seal_active /\ seal_should_appear
       ELSE state = IDLING /\ ~seal_active /\ ~seal_should_appear
  /\ (Stepped /\ seal_should_appear) =>
       /\ EntryState = IDLING /\ ~step_pet0.seal_active
       /\ ~Far(Hypot2(FedX - step_pet0.x, FedY - step_pet0.y))
       /\ ~AnchorLeft

\* C27 witness: the pointer has drifted away from the idle anchor without
\* ever moving above the threshold, so that the mouse-idle time exceeds
\* MOUSE_IDLE_T2 as well; the pet wanders and no seal is spawned.
C27_Witness ==
  /\ Stepped /\ EntryState = IDLING /\ ~SealAtTick
  /\ ~Far(tick_dist2) /\ AnchorLeft /\ mouse_idle_time > MOUSE_IDLE_T2
  /\ state = WANDERING /\ ~seal_active

\* A seal has been spawned by the tick just taken.
SealSpawned ==
  /\ Stepped /\ EntryState = IDLING /\ ~step_pet0.seal_active
  /\ state = SEAL_MODE /\ seal_active /\ seal_should_appear

\* The tick just taken began in DRAGGING with the button still held.
DragHeld == Stepped /\ step_pet0.state = DRAGGING /\ FedPressed

\* The timers and the wander and seal sub-targets are as they were before
\* the step.
TimersKept ==
  /\ wander_end_time = step_pet0.wander_end_time
  /\ wander_dir_change_time = step_pet0.wander_dir_change_time
  /\ idle_end_time = step_pet0.idle_end_time
  /\ seal_wander_dir_time = step_pet0.seal_wander_dir_time

TargetsKept ==
  /\ wander_anchor_x = step_pet0.wander_anchor_x
  /\ wander_anchor_y = step_pet0.wander_anchor_y
  /\ wander_target_x = step_pet0.wander_target_x
  /\ wander_target_y = step_pet0.wander_target_y
  /\ seal_wander_target_x = step_pet0.seal_wander_target_x
  /\ seal_wander_target_y = step_pet0.seal_wander_target_y
  /\ idle_anchor_mouse_x = step_pet0.idle_anchor_mouse_x
  /\ idle_anchor_mouse_y = step_pet0.idle_anchor_mouse_y

\* C28: a tick that ends in IDLING or in DRAGGING leaves the position of
\* the pet as it was; a tick that begins in DRAGGING with the button held
\* also leaves the remembered previous state, the wander, idle and seal
\* timers, the wander targets and the seal-active flag as update_mouse left
\* them, shows the drag animation and clears flipped.
C28_NoMoveIdleDrag ==
  /\ (Stepped /\ state \in {IDLING, DRAGGING}) => Unmoved
  /\ DragHeld =>
       /\ state = DRAGGING
       /\ prev_state = step_pet0.prev_state
       /\ TimersKept /\ TargetsKept
       /\ seal_active = SealAtTick
       /\ ~seal_should_appear
       /\ current_gif = GIF_DRAG /\ ~flipped

\* C28 witness: the pointer has gone far from a pet held in a drag; the pet
\* stays where it is and keeps the state it was dragged out of.
C28_Witness ==
  /\ DragHeld /\ Far(tick_dist2)
  /\ state = DRAGGING /\ Unmoved
  /\ prev_state = WANDERING /\ current_gif = GIF_DRAG

\* The seal direction timer had run out when the tick just taken was handled.
SealDirOver == FedNow > step_pet0.seal_wander_dir_time

\* The seal sub-target and its timer are as they were before the step.
SealTargetKept ==
  /\ seal_wander_target_x = step_pet0.seal_wander_target_x
  /\ seal_wander_target_y = step_pet0.seal_wander_target_y
  /\ seal_wander_dir_time = step_pet0.seal_wander_dir_time

\* The vector from the pet before the step to the seal sub-target after it.
SealWx == seal_wander_target_x - step_pet0.x

SealWy == seal_wander_target_y - step_pet0.y

\* C29: a tick handled in SEAL_MODE with the seal active stays in SEAL_MODE;
\* a pet farther than NEAR_DISTANCE from the seal moves toward it at
\* move_speed and leaves the sub-target alone; a pet no farther than that
\* has a sub-target between 20 and SEAL_WANDER_RADIUS from the seal, drawn
\* anew with a new timer when the seal direction timer has run out and kept
\* otherwise, and moves toward it at wander_speed until it is within
\* wander_speed of it.  A tick handled in SEAL_MODE with the seal no longer
\* active ends in CHASING and does not move the pet.
C29_SealModeStep ==
  (Stepped /\ EntryState = SEAL_MODE) =>
    IF ~SealAtTick
      THEN state = CHASING /\ Unmoved /\ SealTargetKept
    ELSE /\ state = SEAL_MODE /\ seal_active
         /\ IF FarAboveNear(tick_dist2)
              THEN /\ MovesMin(StepX, StepY, seal_x - step_pet0.x,
                               seal_y - step_pet0.y, move_speed)
                   /\ SealTargetKept
              ELSE /\ Ring(seal_wander_target_x, seal_wander_target_y,
                           seal_x, seal_y,
                           SEAL_WANDER_MIN, SEAL_WANDER_RADIUS)
                   /\ IF SealDirOver
                        THEN /\ seal_wander_dir_time
                                  >= FedNow + WANDER_DIR_CHANGE_MIN
                             /\ seal_wander_dir_time
                                  <= FedNow + WANDER_DIR_CHANGE_MAX
                        ELSE SealTargetKept
                   /\ IF Hypot2(SealWx, SealWy) > Sq(wander_speed)
                        THEN MovesBy(StepX, StepY, SealWx, SealWy,
                                     wander_speed)
                        ELSE Unmoved

\* C29 witness: a pet near the seal, its direction timer still running,
\* takes a step of wander_speed toward the sub-target it had.
C29_Witness ==
  /\ SealWanderKept /\ ~SealDirOver /\ SealTargetKept
  /\ Hypot2(SealWx, SealWy) > Sq(wander_speed)
  /\ ~Unmoved /\ state = SEAL_MODE
  /\ MovesBy(StepX, StepY, SealWx, SealWy, wander_speed)

\* The wander direction timer had run out when the tick just taken was
\* handled.
WanderDirOver == FedNow > step_pet0.wander_dir_change_time

\* Before the step the pet stood within wander_speed of its wander
\* sub-target.
WanderReached ==
  Hypot2(step_pet0.wander_target_x - step_pet0.x,
         step_pet0.wander_target_y - step_pet0.y) < Sq(wander_speed)

\* The tick just taken picked a wander sub-target: the direction timer has
\* been set anew.
WanderPicked ==
  /\ wander_dir_change_time # step_pet0.wander_dir_change_time
  /\ wander_dir_change_time >= FedNow + WANDER_DIR_CHANGE_MIN
  /\ wander_dir_change_time <= FedNow + WANDER_DIR_CHANGE_MAX

\* The wander sub-target and its timer are as they were before the step.
WanderTargetKept ==
  /\ wander_target_x = step_pet0.wander_target_x
  /\ wander_target_y = step_pet0.wander_target_y
  /\ wander_dir_change_time = step_pet0.wander_dir_change_time

\* A tick that stays in WANDERING picks a sub-target when the direction
\* timer has run out or the pet is within wander_speed of the sub-target it
\* has, and keeps the sub-target otherwise.
PicksWhenDue ==
  WanderKept =>
    IF WanderDirOver \/ WanderReached THEN WanderPicked ELSE WanderTargetKept

\* The wander sub-target is no farther than WANDER_RADIUS from the wander
\* anchor.
SubTargetNearAnchor ==
  Hypot2(wander_target_x - wander_anchor_x, wander_target_y - wander_anchor_y)
    <= Sq(WANDER_RADIUS * PX)

\* C30 as stated: in WANDERING a sub-target is picked whenever the direction
\* timer has run out or the pet is within wander_speed of the sub-target,
\* and after every tick in WANDERING the sub-target lies within
\* WANDER_RADIUS of the wander anchor, which is the pointer.
C30_SubTargetAlwaysNear ==
  /\ PicksWhenDue
  /\ (state = WANDERING) => SubTargetNearAnchor
  /\ WanderKept => (wander_anchor_x = FedX /\ wander_anchor_y = FedY)

\* C30, amended: in WANDERING a sub-target is picked whenever the direction
\* timer has run out or the pet is within wander_speed of the sub-target;
\* every tick in WANDERING moves the wander anchor to the pointer; a
\* sub-target that is picked lies between 20 and WANDER_RADIUS from the
\* anchor of that tick, and a sub-target that is kept stays where it was,
\* however far the anchor has moved from it.
C30_SubTargetNearWhenPicked ==
  /\ PicksWhenDue
  /\ WanderKept =>
       /\ wander_anchor_x = FedX /\ wander_anchor_y = FedY
       /\ WanderPicked =>
            Ring(wander_target_x, wander_target_y, FedX, FedY,
                 WANDER_MIN, WANDER_RADIUS)

\* C30 witness: the pointer has moved while the pet walks to a sub-target
\* it keeps; the sub-target is now farther than WANDER_RADIUS from the
\* anchor.
C30_Witness ==
  /\ WanderKept /\ ~WanderDirOver /\ ~WanderReached
  /\ WanderTargetKept /\ ~Unmoved
  /\ wander_anchor_x = FedX /\ wander_anchor_y = FedY
  /\ ~SubTargetNearAnchor

\* A sub-target picked on arrival, around a pointer that has moved.
PickedOnArrival ==
  /\ WanderKept /\ ~WanderDirOver /\ WanderReached /\ WanderPicked
  /\ FedX # step_pet0.wander_anchor_x
  /\ Ring(wander_target_x, wander_target_y, FedX, FedY,
          WANDER_MIN, WANDER_RADIUS)

(***************************************************************************)
(* Properties of the raw device (SpecDrain)                                 *)
(***************************************************************************)

\* Bit n of the flags byte of a packet.
FlagBit(pk, n) == (pk[1] \div (2 ^ n)) % 2

\* The signed deltas of a packet: nine bits in two's complement, the ninth
\* in the flags byte.
SignedDx(pk) == pk[2] - 256 * FlagBit(pk, 4)

SignedDy(pk) == pk[3] - 256 * FlagBit(pk, 5)

RECURSIVE SumDx(_)
SumDx(pkts) == IF pkts = <<>> THEN 0 ELSE SignedDx(Head(pkts)) + SumDx(Tail(pkts))

RECURSIVE SumDy(_)
SumDy(pkts) == IF pkts = <<>> THEN 0 ELSE SignedDy(Head(pkts)) + SumDy(Tail(pkts))

\* The packets among the chunks of a sequence.
PacketsOf(chunks) == SelectSeq(chunks, LAMBDA c : ~IsShort(c))

\* The packets the last call found before the first short chunk or the end
\* of what was pending.
Took == SubSeq(mice_last.dev, 1, mice_last.reads - 1)

\* C31: every call of _read_mice returns without blocking after one read
\* for each packet pending when it was called, up to the first short read,
\* and one read more that ends the loop; it returns the sum of the signed x
\* deltas of those packets, the negated sum of their signed y deltas and
\* the left-button bit of the last of them (false when there was none);
\* when no read was short nothing is left pending; and the packets counted
\* by all calls so far, followed by the packets still pending, are the
\* packets the device has queued, each once and in order.
C31_RawDrain ==
  /\ drains > 0 =>
       /\ ~mice_last.blocked
       /\ mice_last.reads <= Len(mice_last.dev) + 1
       /\ \A i \in 1..Len(Took) : ~IsShort(Took[i])
       /\ \/ mice_last.reads = Len(mice_last.dev) + 1 /\ mice_last.rest = <<>>
          \/ /\ mice_last.reads <= Len(mice_last.dev)
             /\ IsShort(mice_last.dev[mice_last.reads])
             /\ mice_last.rest
                  = SubSeq(mice_last.dev, mice_last.reads + 1,
                           Len(mice_last.dev))
       /\ mice_last.ret.dx = SumDx(Took)
       /\ mice_last.ret.dy = -SumDy(Took)
       /\ mice_last.ret.btn
            = (Took # <<>> /\ FlagBit(Took[Len(Took)], 0) = 1)
  /\ mice_counted \o PacketsOf(mice_dev) = PacketsOf(mice_arrived)
  /\ Len(mice_counted) + mice_dropped + Len(mice_dev) = Len(mice_arrived)

\* C31 witness: a second call finds one packet that has arrived since the
\* first, which counted two; it returns the deltas of that packet alone.
C31_Witness ==
  /\ drains = 2 /\ Len(mice_counted) = 3 /\ Len(Took) = 1
  /\ mice_dev = <<>>
  /\ mice_last.ret.dx = SignedDx(Took[1])
  /\ mice_last.ret.dy = -SignedDy(Took[1])
  /\ mice_last.ret.dy # 0
  /\ SumDx(mice_counted) # mice_last.ret.dx

(***************************************************************************)
(* Further properties of the hybrid backend (SpecQuery)                     *)
(***************************************************************************)

\* The first query of the hybrid backend has been made; the object before
\* it is the one the constructor left.
FirstHybridQuery == q_backend = "hybrid" /\ queries = 1

\* C32: the constructor of the hybrid backend leaves the fused position and
\* the last precise reading on one XQueryPointer reading and the
\* sensitivity at 1.0, with no raw delta applied; the first query, when
\* its precise reading is the seed, returns the seed advanced by the raw
\* deltas drained on that query at sensitivity 1.0 (kept within the
\* display), and when the reading differs returns the new reading.
C32_FusionSeeding ==
  /\ (q_backend = "hybrid" /\ queries = 0) =>
       /\ \E r \in HybridSeeds :
            /\ hybrid.x = r[1] * SensUnit /\ hybrid.y = r[2] * SensUnit
            /\ hybrid.last_x11_x = r[1] /\ hybrid.last_x11_y = r[2]
       /\ hybrid.sensitivity = SensUnit
  /\ FirstHybridQuery =>
       LET seed == q_last.before
           r == q_last.reading
       IN /\ ~q_last.raised
          /\ seed.sensitivity = SensUnit
          /\ IF r[1] = seed.last_x11_x /\ r[2] = seed.last_x11_y
               THEN /\ q_last.ret[1]
                         = ClampTo(DisplayW, seed.x + LastRaw.dx * SensUnit)
                    /\ q_last.ret[2]
                         = ClampTo(DisplayH, seed.y + LastRaw.dy * SensUnit)
               ELSE /\ q_last.ret[1] = r[1] * SensUnit
                    /\ q_last.ret[2] = r[2] * SensUnit

\* C32 witness: the first query reads the seed again and a packet of
\* (3, -4) counts; it returns the seed moved by (3, 4) pixels.
C32_Witness ==
  /\ FirstHybridQuery
  /\ q_last.reading[1] = q_last.before.last_x11_x
  /\ q_last.reading[2] = q_last.before.last_x11_y
  /\ LastRaw.dx = 3 /\ LastRaw.dy = 4
  /\ q_last.ret[1] = q_last.before.x + 3 * SensUnit
  /\ q_last.ret[2] = q_last.before.y + 4 * SensUnit

(***************************************************************************)
(* Invariants of the tick loop (Spec)                                       *)
(***************************************************************************)

\* C33: after every tick the state is DRAGGING exactly when the sample of
\* that tick had the button pressed, and the remembered previous state is
\* never DRAGGING, so that a release always leaves DRAGGING.
C33_DraggingTracksButton ==
  /\ ticks > 0 => (state = DRAGGING <=> mouse_pressed)
  /\ prev_state # DRAGGING

\* C33 witness: the button, pressed while the pet wandered, has been
\* released; the pet has left DRAGGING for the state it was dragged out of.
C33_Witness ==
  /\ ticks >= 3 /\ tick_state0 = DRAGGING /\ ~mouse_pressed
  /\ state # DRAGGING /\ prev_state = drag_from /\ prev_state = WANDERING

\* C34: after every tick an active seal goes with the state SEAL_MODE, or
\* with DRAGGING remembered out of SEAL_MODE, and the state SEAL_MODE goes
\* with an active seal; no tick ends in CHASING, WANDERING or IDLING with a
\* seal active.
C34_SealStateCoupling ==
  /\ seal_active =>
       \/ state = SEAL_MODE
       \/ state = DRAGGING /\ prev_state = SEAL_MODE
  /\ state = SEAL_MODE => seal_active
  /\ state \in {CHASING, WANDERING, IDLING} => ~seal_active

\* C34 witness: the pet is being dragged out of SEAL_MODE and the seal is
\* still there.
C34_Witness ==
  /\ ticks > 0 /\ seal_active /\ seal_visible
  /\ state = DRAGGING /\ prev_state = SEAL_MODE

\* A seal dismissed while the pet sat by it: the tick ends in CHASING.
SealLeft ==
  /\ ticks > 0 /\ tick_state0 = SEAL_MODE /\ tick_seal0
  /\ ~seal_active /\ state = CHASING

\* C35: no tick ends with both one-shot signals raised: a tick that raises
\* seal_should_disappear has the mouse-idle time at 0 and began with a seal,
\* a tick that raises seal_should_appear has the mouse-idle time above
\* MOUSE_IDLE_T2 and began without one.
C35_SpawnDespawnExclusive ==
  /\ ~(seal_should_appear /\ seal_should_disappear)
  /\ seal_should_disappear => (mouse_idle_time = 0 /\ tick_seal0)
  /\ seal_should_appear => (mouse_idle_time > MOUSE_IDLE_T2 /\ ~tick_seal0)

\* C35 witness: a pet dragged out of SEAL_MODE is carried away; the tick
\* raises the despawn signal alone, and the spawn signal of the earlier
\* tick has been cleared.
C35_Witness ==
  /\ ticks > 0 /\ tick_state0 = DRAGGING /\ state = DRAGGING
  /\ prev_state = SEAL_MODE /\ tick_seal0
  /\ seal_should_disappear /\ ~seal_should_appear
  /\ mouse_idle_time = 0 /\ spawn_count = 0

\* The point <<px, py>>, in units of 1 / SensUnit pixel, lies within the
\* display [0, width - 1] x [0, height - 1].
OnDisplay(px, py) ==
  /\ 0 <= px /\ px <= (DisplayW - 1) * SensUnit
  /\ 0 <= py /\ py <= (DisplayH - 1) * SensUnit

\* Every reading XQueryPointer gives, the seed included, lies within the
\* display.
ReadingsOnDisplay ==
  \A r \in HybridSeeds \cup {i[2] : i \in HybridInputs} :
    OnDisplay(r[1] * SensUnit, r[2] * SensUnit)

\* C36: with the seed and every precise reading within the display, the
\* fused position of the hybrid backend, and the position every query
\* returns, lie within the display, whatever raw deltas are drained and
\* whatever value the sensitivity has reached.
C36_FusedOnDisplay ==
  (q_backend = "hybrid" /\ ReadingsOnDisplay) =>
    /\ OnDisplay(hybrid.x, hybrid.y)
    /\ queries > 0 => OnDisplay(q_last.ret[1], q_last.ret[2])

\* C36 witness: a stale query whose raw deltas, at a sensitivity that is no
\* longer 1.0, would carry the position past the bottom of the display; the
\* position returned is on the last row.
C36_Witness ==
  /\ q_backend = "hybrid" /\ queries > 0 /\ ReadingsOnDisplay
  /\ ~X11Changed(q_last.before, q_last.reading)
  /\ q_last.before.sensitivity # SensUnit
  /\ q_last.before.y + LastRaw.dy * q_last.before.sensitivity
       > (DisplayH - 1) * SensUnit
  /\ q_last.ret[2] = (DisplayH - 1) * SensUnit
  /\ hybrid.y = q_last.ret[2]

\* The idle animations.
IdleGifs == {GIF_IDLE[i] : i \in 1..NIdle}

\* C37: after every tick the animation is the drag animation exactly when
\* the state is DRAGGING, and after a tick that ends in IDLING it is one of
\* the idle animations.
C37_AnimationMatchesState ==
  ticks > 0 =>
    /\ current_gif = GIF_DRAG <=> state = DRAGGING
    /\ state = IDLING => current_gif \in IdleGifs

\* The drag animation outlives the drag: the button was released on the
\* tick just run, the pet is idling again and still shows the drag
\* animation.
DragGifWhileIdling ==
  /\ ticks > 0 /\ tick_state0 = DRAGGING /\ ~mouse_pressed
  /\ state = IDLING /\ current_gif = GIF_DRAG

\* The tick after that one: the pet idles on with the drag animation.
DragGifStaysWhileIdling ==
  /\ ticks > 0 /\ tick_state0 = IDLING /\ state = IDLING
  /\ current_gif = GIF_DRAG

\* The state DRAGGING itself always shows the drag animation.
DraggingShowsDrag == (ticks > 0 /\ state = DRAGGING) => current_gif = GIF_DRAG

(***************************************************************************)
(* Runs of still samples (SpecStep)                                         *)
(***************************************************************************)

\* How far, squared, the pointer is from where it was when the run of still
\* samples began.
Drifted2 == Hypot2(FedX - still.x, FedY - still.y)

\* C38: while every sample lies no farther than MOUSE_MOVE_THRESHOLD from
\* the one before it, the time of the last movement stays what it was, the
\* mouse-idle time is now minus that time, no despawn signal is raised and
\* a seal that was active stays active, however far the pointer has drifted
\* in all; the mouse-idle time is set to 0 and a seal dismissed only by a
\* sample farther than the threshold from the one before it.
C38_MovementPerTick ==
  Stepped =>
    IF still.n > 0
      THEN /\ mouse_idle_start_ms = still.since
           /\ mouse_idle_time = FedNow - still.since
           /\ mouse_idle_time > 0
           /\ ~seal_should_disappear
           /\ still.seal => seal_active
      ELSE /\ mouse_idle_time = 0 /\ mouse_idle_start_ms = FedNow
           /\ ~seal_active
           /\ seal_should_disappear = step_pet0.seal_active

\* C38 witness: over two samples, each MOUSE_MOVE_THRESHOLD from the one
\* before it, the pointer has drifted twice the threshold; the seal is
\* still there and the mouse-idle time has kept growing.
C38_Witness ==
  /\ Stepped /\ still.n = 2
  /\ Drifted2 = Sq(2 * MOUSE_MOVE_THRESHOLD * PX)
  /\ still.seal /\ seal_active /\ state = SEAL_MODE
  /\ mouse_idle_time > MOUSE_IDLE_T2

\* ---------------------------------------------------------------------------
\* Progress with the pointer at rest (SpecLive)
\* ---------------------------------------------------------------------------

\* Squared distance from the pet to the pointer, in units of 1/PX pixel.
PointerDist2 == Hypot2(mouse_x - x, mouse_y - y)

\* The distance to the pointer after the step is the distance before it less
\* move_speed, up to the rounding of the position to the grid of 1/PX pixel.
CloserBySpeed ==
  LET d0 == ISqrt(PointerDist2)
      d1 == ISqrt(PointerDist2')
  IN /\ d1 <= d0 - move_speed + 2
     /\ d1 >= d0 - move_speed - 2

\* What one tick with the pointer at rest may do.
RestingStep ==
  /\ (state = CHASING /\ state' = CHASING) => CloserBySpeed
  /\ state = CHASING => state' \in {CHASING, WANDERING}
  /\ state # CHASING => state' # CHASING
  /\ state' = SEAL_MODE => state \in {IDLING, SEAL_MODE}
  /\ seal_should_appear' => (~seal_active /\ state = IDLING)
  /\ seal_active =>
       (seal_active' /\ state' = SEAL_MODE /\ ~seal_should_appear')
  /\ ~seal_should_disappear'

OffOrigin(px, py) == Hypot2(px, py) > Sq(MOUSE_MOVE_THRESHOLD * PX)

\* The query of the last tick failed, and the sample of the tick before was
\* off the origin.
FailedOffOrigin ==
  /\ Stepped /\ q_last.failed
  /\ OffOrigin(step_pet0.last_mouse_x, step_pet0.last_mouse_y)

\* The query of the last tick succeeded off the origin, the one before it
\* had failed.
SucceededAfterFailure ==
  /\ Stepped /\ ~q_last.failed /\ q_last.prev_failed
  /\ OffOrigin(q_last.real[1] * PX, q_last.real[2] * PX)

\* What an above-threshold movement of the pointer does on a tick.
AsMovement ==
  /\ tick_moved
  /\ mouse_idle_time = 0 /\ mouse_idle_start_ms = FedNow
  /\ ~seal_active
  /\ seal_should_disappear = step_pet0.seal_active
  /\ (step_pet0.seal_active /\ tick_state0 = SEAL_MODE) => state = CHASING

\* C40: a tick whose query fails feeds the sample (0, 0, False); when the
\* sample of the tick before was farther than MOUSE_MOVE_THRESHOLD from the
\* origin, the tick resets the mouse idle time to 0 and dismisses an active
\* seal (despawn signal, SEAL_MODE -> CHASING) as a movement of the pointer
\* does; the next successful query, its reading being farther than the
\* threshold from the origin as that of a pointer at rest is, is a movement
\* again.
C40_FailedQueryMoves ==
  /\ (Stepped /\ q_last.failed) =>
       (FedX = 0 /\ FedY = 0 /\ ~FedPressed)
  /\ FailedOffOrigin => AsMovement
  /\ SucceededAfterFailure => AsMovement

C40_Witness ==
  /\ SucceededAfterFailure
  /\ steps = 2
  /\ step_pet0.mouse_idle_time = 0
  /\ step_pet0.state = CHASING /\ ~step_pet0.seal_active
  /\ still.n = 0 /\ still.since = FedNow
  /\ mouse_idle_time = 0

\* A failed query dismisses the seal of a Pet in SEAL_MODE.
SealDismissedByFailure ==
  /\ FailedOffOrigin
  /\ step_pet0.seal_active /\ tick_state0 = SEAL_MODE
  /\ seal_should_disappear /\ state = CHASING

====
